---- MODULE Spec2Model ----
(***************************************************************************)
(* Style reconciliation, image generation and inventory of the inspiration *)
(* site pipeline (scripts/content_parser.py, scripts/generate_images.py).  *)
(*                                                                         *)
(* Disk state: the content files (body text), generated/all_content.json,  *)
(* generated/images/{id}_v{k}.png and the sidecars                         *)
(* generated/metadata/{id}_v{k}_metadata.json.  A file that is absent is   *)
(* a slot outside the DOMAIN of the function that models its directory.    *)
(* The orphan cleanup reads file names character by character, so there a  *)
(* file name is the sequence of the characters of its stem.                *)
(***************************************************************************)
EXTENDS Integers, Sequences, FiniteSets, TLC

VARIABLES
    styles_data,   \* the style catalog: collection key -> set of style names
    body,          \* content file of each identity: its main section text
    all_content,   \* generated/all_content.json: identity -> parsed item
    images,        \* generated/images: the set of <<identity, variation>>
    metadata,      \* generated/metadata: <<identity, variation>> -> sidecar
    run,           \* the generation run in progress, if any
    last,          \* the last operation performed, its inputs and its result
    spent,         \* the edits and generation runs made so far
    returned,      \* per identity, since a parse first found the v1 sidecar to
                   \* record the text the file still holds: the style that parse
                   \* returned and the style the latest parse returned
    config,        \* config.json: << >> when the file is absent
    st_size,       \* the bytes stat reports for a file: <<directory, name>> -> size
    archive,       \* generated/archive: the set of <<folder, subfolder, name>>
    interrupted,   \* the image and sidecar directories as a run that was killed
                   \* left them, for the behaviours that start after such a run
    wrote          \* per image file, what the call that wrote it recorded in the
                   \* sidecar it saved with the image

vars == <<styles_data, body, all_content, images, metadata, run, last, spent, returned,
          config, st_size, archive, interrupted, wrote>>

\* the state that parsing and generation leave alone
rest == <<config, st_size, archive, interrupted>>

\* no run was killed before the behaviour starts
NotInterrupted == [images |-> {}, metadata |-> << >>]

----------------------------------------------------------------------------
(* Bounds of the model *)

NumItems == 1     \* content files of the pipeline
NumTexts == 2     \* distinct body texts a content file may hold
MaxEdits == 1     \* body edits in one behaviour
MaxRuns == 2      \* generation runs in one behaviour

Ids == 1..NumItems
Texts == 1..NumTexts

\* the identities of the content files on disk
ContentIds == DOMAIN body

----------------------------------------------------------------------------
(* The style catalog and select_style *)

PaintingKey == "painting_technique_styles"
StorytellingKey == "visual_storytelling_techniques"
CollectionKeys == {PaintingKey, StorytellingKey}

FallbackStyle == "turner-atmospheric"
DefaultCategory == "painting_technique"
KnownCategories == {"painting_technique", "visual_storytelling"}

\* names a catalog may list under each collection; "monet" may be in both
PaintingNames == {"turner-atmospheric", "monet"}
StorytellingNames == {"noir", "monet"}
StyleNames == PaintingNames \cup StorytellingNames

\* a catalog file: each collection key is missing or maps to a set of names
Catalogs ==
    UNION { { [k \in D |-> IF k = PaintingKey THEN p ELSE s] :
                p \in SUBSET PaintingNames, s \in SUBSET StorytellingNames } :
            D \in SUBSET CollectionKeys }

\* the catalog of the pipeline runs
SiteCatalog ==
    [k \in CollectionKeys |->
        IF k = PaintingKey THEN {"turner-atmospheric", "monet"} ELSE {"noir"}]

\* styles_data when the catalog file does not exist: _load_styles raises
NoStylesFile == [error |-> "FileNotFoundError"]

\* list(self.styles_data.get(key, {}).keys())
StyleKeys(styles, key) == IF key \in DOMAIN styles THEN styles[key] ELSE {}

CategoryKey(style_category) ==
    IF style_category = "painting_technique" THEN PaintingKey ELSE StorytellingKey

\* values the frontmatter may give the two style fields
CategoryInputs == KnownCategories \cup {"random", "watercolor_cats"}
SpecificInputs == StyleNames \cup {"random", "no-such-style"}

\* random.choice(seq): any element; IndexError on an empty sequence
Raised == "IndexError"
random_choice(S) == IF S = {} THEN {Raised} ELSE S

\* An outcome of a selection: the pair returned and whether random.choice ran.
Outcome(name, category, drawn) ==
    [name |-> name, category |-> category, random_draw |-> drawn]

\* _get_random_style without its guard against an empty style list
get_random_style_unguarded(styles, style_category) ==
    LET keys == IF style_category = "painting_technique"
                    THEN StyleKeys(styles, PaintingKey)
                ELSE IF style_category = "visual_storytelling"
                    THEN StyleKeys(styles, StorytellingKey)
                ELSE {}
    IN  { [name |-> n, random_draw |-> TRUE] : n \in random_choice(keys) }

_get_random_style(styles, style_category) ==
    LET keys == IF style_category = "painting_technique"
                    THEN StyleKeys(styles, PaintingKey)
                ELSE IF style_category = "visual_storytelling"
                    THEN StyleKeys(styles, StorytellingKey)
                ELSE {}
    IN  IF keys # {}
            THEN { [name |-> n, random_draw |-> TRUE] : n \in random_choice(keys) }
            ELSE { [name |-> FallbackStyle, random_draw |-> FALSE] }

\* _validate_style_in_category looking the name up in both collections
validate_style_in_any_category(styles, style_name, style_category) ==
    style_name \in StyleKeys(styles, PaintingKey) \cup StyleKeys(styles, StorytellingKey)

_validate_style_in_category(styles, style_name, style_category) ==
    IF style_category = "painting_technique"
        THEN style_name \in StyleKeys(styles, PaintingKey)
    ELSE IF style_category = "visual_storytelling"
        THEN style_name \in StyleKeys(styles, StorytellingKey)
    ELSE FALSE

\* select_style labelling every style of a "random" draw a painting technique
select_style_one_label(styles, style_category, style_specific) ==
    IF style_category = "random" THEN
        LET all_styles ==
                StyleKeys(styles, PaintingKey) \cup StyleKeys(styles, StorytellingKey)
        IN  IF all_styles # {}
                THEN { Outcome(n, "painting_technique", TRUE) : n \in all_styles }
                ELSE { Outcome(FallbackStyle, "painting_technique", FALSE) }
    ELSE IF style_category \in KnownCategories THEN
        IF style_specific # "random"
           /\ _validate_style_in_category(styles, style_specific, style_category)
            THEN { Outcome(style_specific, style_category, FALSE) }
            ELSE { Outcome(r.name, style_category, r.random_draw) :
                     r \in _get_random_style(styles, style_category) }
    ELSE
        { Outcome(r.name, "painting_technique", r.random_draw) :
            r \in _get_random_style(styles, "painting_technique") }

\* the set of outcomes select_style(style_category, style_specific) can have
select_style(styles, style_category, style_specific) ==
    IF style_category = "random" THEN
        LET all_styles ==
                { <<n, "painting_technique">> : n \in StyleKeys(styles, PaintingKey) }
                \cup
                { <<n, "visual_storytelling">> : n \in StyleKeys(styles, StorytellingKey) }
        IN  IF all_styles # {}
                THEN { Outcome(c[1], c[2], TRUE) : c \in random_choice(all_styles) }
                ELSE { Outcome(FallbackStyle, "painting_technique", FALSE) }
    ELSE IF style_category \in KnownCategories THEN
        IF style_specific = "random" THEN
            { Outcome(r.name, style_category, r.random_draw) :
                r \in _get_random_style(styles, style_category) }
        ELSE IF _validate_style_in_category(styles, style_specific, style_category) THEN
            { Outcome(style_specific, style_category, FALSE) }
        ELSE
            { Outcome(r.name, style_category, r.random_draw) :
                r \in _get_random_style(styles, style_category) }
    ELSE
        { Outcome(r.name, "painting_technique", r.random_draw) :
            r \in _get_random_style(styles, "painting_technique") }

_generate_new_style_assignment(styles, style_category, style_specific) ==
    select_style(styles, style_category, style_specific)

----------------------------------------------------------------------------
(* The style reconciler *)

Slot(id, v) == <<id, v>>

\* Python truthiness of a recorded string
Truthy(s) == s # ""

\* The outcomes of get_stable_style_for_content for identity id: the style
\* returned, content_changed, and whether a fresh assignment was generated.
Assignment(o, changed, fresh) ==
    [style_name |-> o.name, style_category |-> o.category,
     content_changed |-> changed, fresh |-> fresh]

\* the reconciler drawing a fresh assignment on every call
stable_style_always_fresh(styles, meta, id, content_text, style_category, style_specific) ==
    LET changed == /\ Slot(id, 1) \in DOMAIN meta
                   /\ meta[Slot(id, 1)].quote_text # content_text
    IN  { Assignment(o, changed, TRUE) :
            o \in _generate_new_style_assignment(styles, style_category, style_specific) }

\* the reconciler keeping the recorded style when the text has changed
stable_style_kept_on_change(styles, meta, id, content_text, style_category, style_specific) ==
    IF Slot(id, 1) \in DOMAIN meta
        THEN { [style_name |-> meta[Slot(id, 1)].name,
                style_category |-> meta[Slot(id, 1)].approach,
                content_changed |-> meta[Slot(id, 1)].quote_text # content_text,
                fresh |-> FALSE] }
        ELSE { Assignment(o, FALSE, TRUE) :
                 o \in _generate_new_style_assignment(styles, style_category, style_specific) }

\* the reconciler reporting a change when there is no sidecar to compare with
stable_style_changed_when_absent(styles, meta, id, content_text, style_category, style_specific) ==
    IF Slot(id, 1) \in DOMAIN meta /\ meta[Slot(id, 1)].quote_text = content_text
        THEN { [style_name |-> meta[Slot(id, 1)].name,
                style_category |-> meta[Slot(id, 1)].approach,
                content_changed |-> FALSE, fresh |-> FALSE] }
        ELSE { Assignment(o, TRUE, TRUE) :
                 o \in _generate_new_style_assignment(styles, style_category, style_specific) }

get_stable_style_for_content(styles, meta, id, content_text, style_category, style_specific) ==
    LET fresh(changed) ==
            { Assignment(o, changed, TRUE) :
                o \in _generate_new_style_assignment(styles, style_category, style_specific) }
    IN  IF Slot(id, 1) \in DOMAIN meta THEN
            LET existing_style == meta[Slot(id, 1)].name
                existing_approach == meta[Slot(id, 1)].approach
                existing_content == meta[Slot(id, 1)].quote_text
                content_changed == existing_content # content_text
            IN  IF content_changed THEN fresh(TRUE)
                ELSE IF Truthy(existing_style) /\ Truthy(existing_approach) THEN
                    { [style_name |-> existing_style, style_category |-> existing_approach,
                       content_changed |-> FALSE, fresh |-> FALSE] }
                ELSE fresh(FALSE)
        ELSE fresh(FALSE)

\* generate_prompt: the item written to all_content.json
ContentItem(id, content_text, a) ==
    [content_file |-> id, quote_text |-> content_text,
     style_name |-> a.style_name, style_category |-> a.style_category,
     content_changed |-> a.content_changed]

----------------------------------------------------------------------------
(* Initial state: the content files exist, nothing has been generated *)

Idle == [state |-> "idle"]

Init ==
    /\ styles_data = SiteCatalog
    /\ body \in [Ids -> Texts]
    /\ all_content = << >>
    /\ images = {}
    /\ metadata = << >>
    /\ run = Idle
    /\ last = [op |-> "init"]
    /\ spent = [edits |-> 0, runs |-> 0]
    /\ returned = [id \in Ids |-> << >>]
    /\ config = << >>
    /\ st_size = << >>
    /\ archive = {}
    /\ interrupted = NotInterrupted
    /\ wrote = << >>

\* the user edits the body text of a content file
EditBody(id, t) ==
    /\ body[id] # t
    /\ spent.edits < MaxEdits
    /\ spent' = [spent EXCEPT !.edits = @ + 1]
    /\ returned' = [returned EXCEPT ![id] = << >>]
    /\ body' = [body EXCEPT ![id] = t]
    /\ last' = [op |-> "edit"]
    /\ UNCHANGED <<rest, styles_data, all_content, images, metadata, wrote, run>>

\* the frontmatter style fields a content file of the site may carry:
\* absent fields (defaulted to random by parse_markdown), a category alone,
\* a style named in its category, a style missing from its category, and an
\* unknown category
Frontmatters ==
    { [style_category |-> "random", style_specific |-> "random"],
      [style_category |-> "visual_storytelling", style_specific |-> "random"],
      [style_category |-> "painting_technique", style_specific |-> "monet"],
      [style_category |-> "visual_storytelling", style_specific |-> "no-such-style"],
      [style_category |-> "watercolor_cats", style_specific |-> "random"] }

\* the v1 sidecar of id exists and records the text the content file holds
RecordsCurrentText(id) ==
    /\ Slot(id, 1) \in DOMAIN metadata
    /\ metadata[Slot(id, 1)].quote_text = body[id]

\* generate_prompt's call of the reconciler for the content file of id
Reconciled(id, fm) ==
    get_stable_style_for_content(styles_data, metadata, id, body[id],
                                 fm.style_category, fm.style_specific)

\* parse_all_content: one item per content file; a file whose parse raises
\* is reported and left out.  The frontmatter fields are inputs of the run.
ParsedContents ==
    { [id \in { i \in ContentIds : a[i].style_name # Raised } |->
           ContentItem(id, body[id], a[id]) @@ [fresh |-> a[id].fresh,
                                                frontmatter |-> fm[id]]] :
        <<fm, a>> \in
          { x \in [ContentIds -> Frontmatters] \X
                  [ContentIds -> UNION { Reconciled(i, f) : i \in ContentIds, f \in Frontmatters }] :
              \A i \in ContentIds : x[2][i] \in Reconciled(i, x[1][i]) } }

\* the fields of an item that generate_prompt returns
ItemFields == {"content_file", "quote_text", "style_name", "style_category",
               "content_changed"}
Written(parsed) == [id \in DOMAIN parsed |-> [k \in ItemFields |-> parsed[id][k]]]

\* content_parser.main: ContentParser(), which raises when the catalog file
\* is missing; then parse_all_content, and all_content.json is written unless
\* nothing was parsed.
ParseAll ==
    /\ run = Idle
    /\ IF styles_data = NoStylesFile THEN
          /\ last' = [op |-> "ContentParser", error |-> "FileNotFoundError"]
          /\ UNCHANGED <<all_content, returned>>
       ELSE \E parsed \in ParsedContents :
          /\ all_content' = IF DOMAIN parsed # {} THEN Written(parsed) ELSE all_content
          /\ last' = [op |-> "parse",
                      frontmatter |-> [id \in DOMAIN parsed |-> parsed[id].frontmatter],
                      fresh |-> [id \in DOMAIN parsed |-> parsed[id].fresh]]
          /\ returned' = [id \in ContentIds |->
                  IF id \notin DOMAIN parsed THEN returned[id]
                  ELSE LET pair == <<parsed[id].style_name, parsed[id].style_category>>
                       IN  IF returned[id] # << >>
                               THEN [returned[id] EXCEPT !.latest = pair, !.parses = 2]
                           ELSE IF RecordsCurrentText(id)
                               THEN [first |-> pair, latest |-> pair, parses |-> 1]
                           ELSE << >>]
    /\ UNCHANGED <<rest, styles_data, body, images, metadata, wrote, run, spent>>

----------------------------------------------------------------------------
(* Image generation *)

\* variations_per_content and cost_per_image of load_config's defaults
variations_per_content == 3

\* dict.get(key, default)
Get(d, key, default) == IF key \in DOMAIN d THEN d[key] ELSE default

\* the outcomes of one call of the image API
ApiOutcomes == {"success", "no_image", "error"}

\* generate_variations drawing the style of variation 1 like that of the others
VariationStylesAllDrawn(styles, content_data, variation_num) ==
    LET original_approach == Get(content_data, "style_approach", "painting_technique")
        drawn == IF variation_num >= 3
                    THEN StyleKeys(styles, StorytellingKey)
                    ELSE StyleKeys(styles, PaintingKey)
    IN  { [style_name |-> n,
           style_approach |-> IF variation_num >= 3 THEN "visual_storytelling"
                              ELSE original_approach] : n \in drawn }

\* generate_variations: the styles variation variation_num may be given
VariationStyles(styles, content_data, variation_num) ==
    LET original_style == Get(content_data, "style_name", "unknown")
        original_approach == Get(content_data, "style_approach", "painting_technique")
        painting_styles == StyleKeys(styles, PaintingKey)
        storytelling_styles == StyleKeys(styles, StorytellingKey)
        pick(available) == IF available # {} THEN available ELSE {original_style}
    IN  IF variation_num = 1 THEN
            { [style_name |-> original_style, style_approach |-> original_approach] }
        ELSE IF variation_num = 2 THEN
            IF original_approach = "painting_technique"
                THEN { [style_name |-> n, style_approach |-> original_approach] :
                         n \in pick(painting_styles \ {original_style}) }
                ELSE { [style_name |-> n, style_approach |-> original_approach] :
                         n \in pick(storytelling_styles \ {original_style}) }
        ELSE
            IF original_approach = "painting_technique"
                THEN { [style_name |-> n, style_approach |-> "visual_storytelling"] :
                         n \in pick(storytelling_styles) }
                ELSE { [style_name |-> n, style_approach |-> "painting_technique"] :
                         n \in pick(painting_styles) }

\* save_metadata: the sidecar written for content_data
Sidecar(content_data, outcome) ==
    [name |-> Get(content_data, "style_name", "unknown"),
     approach |-> Get(content_data, "style_approach", "artistic"),
     quote_text |-> content_data.quote_text,
     success |-> (outcome = "success"),
     error |-> (outcome = "error")]

WriteFile(dir, slot, record) ==
    [s \in DOMAIN dir \cup {slot} |-> IF s = slot THEN record ELSE dir[s]]

\* the images of imgs that lie next to the sidecar saved with them
WrittenWith(imgs, meta) ==
    [s \in { t \in imgs \cap DOMAIN meta : meta[t].success } |-> meta[s]]

\* check_existing_image looking for the sidecar in place of the image
check_existing_image_by_sidecar(id, variation) == Slot(id, variation) \in DOMAIN metadata

check_existing_image(id, variation) == Slot(id, variation) \in images

\* generate_image leaving no sidecar behind when the API call raises
generate_image_error_unrecorded(content_data, force, variation, status) ==
    LET id == content_data.content_file
        slot == Slot(id, variation)
    IN  IF ~force /\ check_existing_image(id, variation) THEN
            /\ status = "skipped"
            /\ UNCHANGED <<images, metadata, wrote>>
        ELSE IF ~({"style_name", "style_approach"} \subseteq DOMAIN content_data) THEN
            /\ status = "raised"
            /\ UNCHANGED <<images, metadata, wrote>>
        ELSE
            /\ status \in ApiOutcomes
            /\ images' = IF status = "success" THEN images \cup {slot} ELSE images
            /\ metadata' = IF status = "error" THEN metadata
                           ELSE WriteFile(metadata, slot, Sidecar(content_data, status))
            /\ wrote' = IF status = "success"
                            THEN WriteFile(wrote, slot, Sidecar(content_data, status))
                            ELSE wrote

\* generate_image sending its request whether the image exists or not
generate_image_always_requesting(content_data, force, variation, status) ==
    LET slot == Slot(content_data.content_file, variation)
    IN  IF ~({"style_name", "style_approach"} \subseteq DOMAIN content_data) THEN
            /\ status = "raised"
            /\ UNCHANGED <<images, metadata, wrote>>
        ELSE
            /\ status \in ApiOutcomes
            /\ images' = IF status = "success" THEN images \cup {slot} ELSE images
            /\ metadata' = WriteFile(metadata, slot, Sidecar(content_data, status))
            /\ wrote' = IF status = "success"
                            THEN WriteFile(wrote, slot, Sidecar(content_data, status))
                            ELSE wrote

\* generate_image(content_data, force, variation): the status returned, with
\* its effect on the image and sidecar directories.  "raised" is the KeyError
\* of the progress line that reads content_data['style_approach'].
generate_image(content_data, force, variation, status) ==
    LET id == content_data.content_file
        slot == Slot(id, variation)
    IN  IF ~force /\ check_existing_image(id, variation) THEN
            /\ status = "skipped"
            /\ UNCHANGED <<images, metadata, wrote>>
        ELSE IF ~({"style_name", "style_approach"} \subseteq DOMAIN content_data) THEN
            /\ status = "raised"
            /\ UNCHANGED <<images, metadata, wrote>>
        ELSE
            /\ status \in ApiOutcomes
            /\ images' = IF status = "success" THEN images \cup {slot} ELSE images
            /\ metadata' = WriteFile(metadata, slot, Sidecar(content_data, status))
            /\ wrote' = IF status = "success"
                            THEN WriteFile(wrote, slot, Sidecar(content_data, status))
                            ELSE wrote

Statuses == ApiOutcomes \cup {"skipped", "raised"}

\* the content list generate_from_parsed_content works on: the content file,
\* or what the parser returns when the file is missing
LoadedContents ==
    IF DOMAIN all_content # {} THEN {all_content}
    ELSE { Written(parsed) : parsed \in ParsedContents }

FirstItem(content) == CHOOSE i \in DOMAIN content : \A j \in DOMAIN content : i <= j
IsLastItem(content, i) == \A j \in DOMAIN content : j <= i
NextItem(content, i) ==
    CHOOSE k \in DOMAIN content : k > i /\ \A j \in DOMAIN content : j > i => k <= j

\* the values --variations takes: a single image, or the default
VariationCounts == {1, variations_per_content}

\* main: generate_from_parsed_content(content_file, force, variations) starts.
\* Without all_content.json it constructs the parser, which raises when the
\* catalog file is missing too.
GenerateStart(force, variations) ==
    /\ run = Idle
    /\ IF DOMAIN all_content = {} /\ styles_data = NoStylesFile THEN
          /\ run' = Idle
          /\ last' = [op |-> "generate_from_parsed_content",
                      error |-> "FileNotFoundError"]
       ELSE
          /\ \E content \in LoadedContents :
              /\ DOMAIN content # {}
              /\ run' = [state |-> "running", force |-> force, variations |-> variations,
                         content |-> content, item |-> FirstItem(content), variation |-> 1]
          /\ last' = [op |-> "generate_start"]
    /\ spent.runs < MaxRuns
    /\ spent' = [spent EXCEPT !.runs = @ + 1]
    /\ UNCHANGED <<rest, styles_data, body, all_content, images, metadata, wrote, returned>>

\* the cursor after the call for (item, variation) returned
Advance(r) ==
    IF r.variations > 1 /\ r.variation < r.variations
        THEN [r EXCEPT !.variation = r.variation + 1]
    ELSE IF IsLastItem(r.content, r.item) THEN Idle
    ELSE [r EXCEPT !.item = NextItem(r.content, r.item), !.variation = 1]

\* whether time.sleep(2) runs after the call for (item, variation) returned
\* status: between two variations only after a success, and after the calls
\* of an item that is not the last
sleeps_after(r, status) ==
    IF r.variations > 1 /\ r.variation < r.variations
        THEN status = "success"
        ELSE ~IsLastItem(r.content, r.item)

\* the record of a call of generate_image: whether it sent a request to the
\* image API (api), whether a request sent earlier in the run had not been
\* followed by a sleep when the call began (undelayed_before) and whether one
\* has not when the next call begins (undelayed)
Called(status, style_name, style_approach) ==
    LET api == status \in ApiOutcomes
        undelayed_before == last.op = "generate_image" /\ last.undelayed
        delay == status # "raised" /\ sleeps_after(run, status)
    IN  [op |-> "generate_image", id |-> run.item, variation |-> run.variation,
         status |-> status, style_name |-> style_name,
         style_approach |-> style_approach, force |-> run.force,
         api |-> api, delay |-> delay, undelayed_before |-> undelayed_before,
         undelayed |-> ~delay /\ (api \/ undelayed_before)]

\* one call of generate_image in the loops of generate_from_parsed_content
\* and generate_variations, returning one of statuses; generate_variations
\* first constructs the parser, which raises when the catalog file is missing
GenerateCall(statuses) ==
    /\ run # Idle
    /\ LET content_data == run.content[run.item] IN
        IF run.variations > 1 /\ styles_data = NoStylesFile THEN
            /\ last' = [op |-> "generate_variations", id |-> run.item,
                        error |-> "FileNotFoundError"]
            /\ run' = Idle
            /\ UNCHANGED <<images, metadata, wrote>>
        ELSE \E status \in statuses :
          /\ IF run.variations > 1 THEN
                \* variation_content: content_data with the variation's style
                \E style \in VariationStyles(styles_data, content_data, run.variation) :
                  /\ generate_image(style @@ content_data, run.force, run.variation, status)
                  /\ last' = Called(status, style.style_name, style.style_approach)
             ELSE
                /\ generate_image(content_data, run.force, 1, status)
                /\ last' = Called(status, content_data.style_name,
                                  Get(content_data, "style_approach", "artistic"))
          /\ run' = IF status = "raised" THEN Idle ELSE Advance(run)
    /\ UNCHANGED <<rest, styles_data, body, all_content, spent, returned>>

GenerateStep == GenerateCall(Statuses)

\* the process is killed between two calls
Terminate ==
    /\ run # Idle
    /\ run' = Idle
    /\ last' = [op |-> "terminate"]
    /\ UNCHANGED <<rest, styles_data, body, all_content, images, metadata, wrote, spent, returned>>

----------------------------------------------------------------------------
(* The inventory differ *)

\* check_new_styles testing the style mismatch before the content change
ClassifyStyleFirst(content, imgs, meta, n) ==
    LET base_filename == content.content_file
        variations_exist == { v \in 1..n : Slot(base_filename, v) \in imgs }
        current_style == Get(content, "style_name", "unknown")
        style_mismatch ==
            /\ 1 \in variations_exist
            /\ Slot(base_filename, 1) \in DOMAIN meta
            /\ meta[Slot(base_filename, 1)].name # current_style
    IN  IF variations_exist = {} THEN
            [reason |-> "no_images", type |-> "new", expected_style |-> current_style]
        ELSE IF style_mismatch THEN
            [reason |-> "style_change", type |-> "update",
             expected_style |-> current_style,
             existing_style |-> meta[Slot(base_filename, 1)].name]
        ELSE IF Get(content, "content_changed", FALSE) THEN
            [reason |-> "content_change", type |-> "update",
             expected_style |-> current_style]
        ELSE << >>

\* check_new_styles, for the item content of the content list: the entry of
\* needs_generation it appends, or << >> when it appends none
Classify(content, imgs, meta, n) ==
    LET base_filename == content.content_file
        variations_exist == { v \in 1..n : Slot(base_filename, v) \in imgs }
        content_change == Get(content, "content_changed", FALSE)
        current_style == Get(content, "style_name", "unknown")
        \* existing_metadata holds the sidecars of the images that exist
        style_mismatch ==
            /\ 1 \in variations_exist
            /\ Slot(base_filename, 1) \in DOMAIN meta
            /\ meta[Slot(base_filename, 1)].name # current_style
    IN  IF variations_exist = {} THEN
            [reason |-> "no_images", type |-> "new", expected_style |-> current_style]
        ELSE IF content_change THEN
            [reason |-> "content_change", type |-> "update",
             expected_style |-> current_style]
        ELSE IF style_mismatch THEN
            [reason |-> "style_change", type |-> "update",
             expected_style |-> current_style,
             existing_style |-> meta[Slot(base_filename, 1)].name]
        ELSE << >>

\* check_new_styles: needs_generation, keyed by the item's identity
check_new_styles(content_list, imgs, meta, n) ==
    [id \in { i \in DOMAIN content_list :
                Classify(content_list[i], imgs, meta, n) # << >> } |->
        Classify(content_list[id], imgs, meta, n)]

\* check_new_styles with an if for each reason in place of the elif chain
AppendedForEachReason(content, imgs, meta, n) ==
    LET base_filename == content.content_file
        variations_exist == { v \in 1..n : Slot(base_filename, v) \in imgs }
        current_style == Get(content, "style_name", "unknown")
        style_mismatch ==
            /\ 1 \in variations_exist
            /\ Slot(base_filename, 1) \in DOMAIN meta
            /\ meta[Slot(base_filename, 1)].name # current_style
        entry(reason) == [filename |-> base_filename, reason |-> reason,
                          expected_style |-> current_style]
    IN  (IF variations_exist = {} THEN <<entry("no_images")>> ELSE << >>)
        \o (IF Get(content, "content_changed", FALSE)
               THEN <<entry("content_change")>> ELSE << >>)
        \o (IF style_mismatch THEN <<entry("style_change")>> ELSE << >>)

\* needs_generation.append(...): what one pass of the loop of
\* check_new_styles appends for the item content
Appended(content, imgs, meta, n) ==
    IF Classify(content, imgs, meta, n) = << >> THEN << >>
    ELSE <<[filename |-> content.content_file,
            reason |-> Classify(content, imgs, meta, n).reason,
            expected_style |-> Classify(content, imgs, meta, n).expected_style]>>

\* needs_generation as the loop over content_list builds it, the items of
\* ids taken in the order of the list
RECURSIVE needs_generation(_, _, _, _, _)
needs_generation(content_list, ids, imgs, meta, n) ==
    IF ids = {} THEN << >>
    ELSE LET first == CHOOSE i \in ids : \A j \in ids : i <= j
         IN  Appended(content_list[first], imgs, meta, n)
             \o needs_generation(content_list, ids \ {first}, imgs, meta, n)

\* check_images_inventory: the status line printed for each item
check_images_inventory(content_list, imgs, meta, n) ==
    [id \in DOMAIN content_list |->
        LET content == content_list[id]
            variations_exist == { v \in 1..n : Slot(id, v) \in imgs }
            style_mismatch ==
                /\ 1 \in variations_exist
                /\ Slot(id, 1) \in DOMAIN meta
                /\ meta[Slot(id, 1)].name # Get(content, "style_name", "unknown")
        IN  IF variations_exist = {} THEN "NEEDS NEW IMAGES"
            ELSE IF Get(content, "content_changed", FALSE) THEN "NEEDS UPDATE"
            ELSE IF style_mismatch THEN "NEEDS UPDATE"
            ELSE "CURRENT"]

----------------------------------------------------------------------------
Next ==
    \/ \E id \in ContentIds, t \in Texts : EditBody(id, t)
    \/ ParseAll
    \/ \E force \in BOOLEAN, variations \in VariationCounts : GenerateStart(force, variations)
    \/ GenerateStep
    \/ Terminate

Spec == Init /\ [][Next]_vars

----------------------------------------------------------------------------
(* select_style on its own: any catalog file, any frontmatter fields *)

InitSelect ==
    /\ styles_data \in Catalogs
    /\ body = [id \in Ids |-> 1]
    /\ all_content = << >>
    /\ images = {}
    /\ metadata = << >>
    /\ run = Idle
    /\ last = [op |-> "init"]
    /\ spent = [edits |-> 0, runs |-> 0]
    /\ returned = [id \in Ids |-> << >>]
    /\ config = << >>
    /\ st_size = << >>
    /\ archive = {}
    /\ interrupted = NotInterrupted
    /\ wrote = << >>

SelectStyle ==
    /\ \E style_category \in CategoryInputs, style_specific \in SpecificInputs :
        \E o \in select_style(styles_data, style_category, style_specific) :
            last' = [op |-> "select_style", style_category |-> style_category,
                     style_specific |-> style_specific, result |-> o]
    /\ UNCHANGED <<rest, styles_data, body, all_content, images, metadata, wrote, run, spent, returned>>

NextSelect == SelectStyle

SpecSelect == InitSelect /\ [][NextSelect]_vars

----------------------------------------------------------------------------
(* The differ on its own: any content list against any artifact directory *)

DifferItems == 2

\* the styles a content item or a v1 sidecar of the inventory may name
DifferStyles == {"monet", "turner-atmospheric"}

\* the items of a content list handed to the differ
DifferContents ==
    [1..DifferItems ->
        { [content_file |-> 0, quote_text |-> 1, style_name |-> "monet",
           style_category |-> "painting_technique", content_changed |-> c] :
          c \in BOOLEAN }]

\* sidecar directories: each v1 sidecar is absent or names a style; it is the
\* record of a success when its image exists and of a failure otherwise
DifferSidecars(imgs) ==
    UNION { { [slot \in { Slot(id, 1) : id \in D } |->
                 [name |-> names[slot[1]], approach |-> "painting_technique",
                  quote_text |-> 1, success |-> (slot \in imgs),
                  error |-> (slot \notin imgs)]] :
              names \in [D -> DifferStyles] } :
            D \in SUBSET (1..DifferItems) }

InitDiffer ==
    /\ styles_data = SiteCatalog
    /\ body = [id \in 1..DifferItems |-> 1]
    /\ \E c \in DifferContents :
         all_content = [id \in 1..DifferItems |-> [c[id] EXCEPT !.content_file = id]]
    /\ images \in SUBSET ((1..DifferItems) \X (1..variations_per_content))
    /\ metadata \in DifferSidecars(images)
    /\ run = Idle
    /\ last = [op |-> "init"]
    /\ spent = [edits |-> 0, runs |-> 0]
    /\ returned = [id \in 1..DifferItems |-> << >>]
    /\ config = << >>
    /\ st_size = << >>
    /\ archive = {}
    /\ interrupted = NotInterrupted
    /\ wrote = WrittenWith(images, metadata)

CheckNewStyles ==
    /\ last' = IF DOMAIN all_content = {}
                 THEN [op |-> "check_new_styles", error |-> TRUE]
                 ELSE [op |-> "check_new_styles", error |-> FALSE,
                       needs_generation |->
                           check_new_styles(all_content, images, metadata,
                                            variations_per_content),
                       listing |->
                           needs_generation(all_content, DOMAIN all_content,
                                            images, metadata,
                                            variations_per_content)]
    /\ UNCHANGED <<rest, styles_data, body, all_content, images, metadata, wrote, run, spent, returned>>

CheckImagesInventory ==
    /\ DOMAIN all_content # {}
    /\ last' = [op |-> "check_images_inventory",
                status |-> check_images_inventory(all_content, images, metadata,
                                                  variations_per_content)]
    /\ UNCHANGED <<rest, styles_data, body, all_content, images, metadata, wrote, run, spent, returned>>

NextDiffer ==
    \/ CheckNewStyles
    \/ CheckImagesInventory

SpecDiffer == InitDiffer /\ [][NextDiffer]_vars

----------------------------------------------------------------------------
(* Properties of the style reconciler *)

\* the identities the latest parse handled
ParsedIds == IF last.op = "parse" THEN DOMAIN last.fresh ELSE {}

RecordsStyle(id) ==
    /\ Slot(id, 1) \in DOMAIN metadata
    /\ Truthy(metadata[Slot(id, 1)].name)
    /\ Truthy(metadata[Slot(id, 1)].approach)

\* C1: when the v1 sidecar exists, records a style name and category and
\* its recorded body text equals the current one, the reconciler returns the
\* recorded (style name, category) with content_changed false and generates
\* no fresh assignment, whatever the frontmatter asks for.
C1_StableStyle ==
    \A id \in ParsedIds :
        RecordsStyle(id) /\ RecordsCurrentText(id) =>
            /\ all_content[id].style_name = metadata[Slot(id, 1)].name
            /\ all_content[id].style_category = metadata[Slot(id, 1)].approach
            /\ all_content[id].content_changed = FALSE
            /\ ~last.fresh[id]

\* C1 witness: a parse returned the recorded style although the frontmatter
\* asked for a style of another category
C1_Witness ==
    \E id \in ParsedIds :
        /\ RecordsStyle(id) /\ RecordsCurrentText(id)
        /\ last.frontmatter[id].style_category = "visual_storytelling"
        /\ all_content[id].style_name = "monet"
        /\ metadata[Slot(id, 1)].name = "monet"
        /\ ~last.fresh[id]

\* C2: while the body text of an item is held constant, every parse that
\* follows a generation which persisted the v1 sidecar returns the same
\* (style name, category): the latest such parse agrees with the first.
C2_Idempotent ==
    \A id \in ContentIds :
        returned[id] # << >> => returned[id].latest = returned[id].first

\* C2 witness: after the last generation run a parse read the style back
\* from the sidecar a second time
C2_Witness ==
    \E id \in ParsedIds :
        /\ returned[id] # << >>
        /\ returned[id].parses = 2
        /\ spent.runs = MaxRuns
        /\ run = Idle
        /\ metadata[Slot(id, 1)].success

\* C3 (as claimed): the v1 sidecar written by a generation call records the
\* style name and the style category the reconciler resolved for the item.
C3_SidecarRecordsAssignment ==
    (last.op = "generate_image" /\ last.variation = 1
        /\ last.status \in ApiOutcomes /\ run # Idle) =>
        /\ metadata[Slot(last.id, 1)].name = run.content[last.id].style_name
        /\ metadata[Slot(last.id, 1)].approach = run.content[last.id].style_category

\* C4: when the v1 sidecar records a body text other than the current one,
\* the reconciler returns content_changed true with an assignment that is a
\* fresh application of the selection rule to the frontmatter's fields.
C4_ChangeDetected ==
    \A id \in ParsedIds :
        (Slot(id, 1) \in DOMAIN metadata /\ ~RecordsCurrentText(id)) =>
            /\ all_content[id].content_changed = TRUE
            /\ last.fresh[id]
            /\ \E o \in select_style(styles_data,
                                     last.frontmatter[id].style_category,
                                     last.frontmatter[id].style_specific) :
                 /\ all_content[id].style_name = o.name
                 /\ all_content[id].style_category = o.category

\* C4 witness: the text changed and the style returned is not the recorded one
C4_Witness ==
    \E id \in ParsedIds :
        /\ Slot(id, 1) \in DOMAIN metadata /\ ~RecordsCurrentText(id)
        /\ all_content[id].content_changed
        /\ all_content[id].style_name # metadata[Slot(id, 1)].name

\* C5: the reconciler generates a fresh assignment exactly when no v1
\* sidecar exists (content_changed false) or the sidecar records another
\* body text; with the sidecar present and the text equal it generates none.
C5_FreshExactlyWhen ==
    \A id \in ParsedIds :
        /\ last.fresh[id] <=>
              (Slot(id, 1) \notin DOMAIN metadata \/ ~RecordsCurrentText(id))
        /\ Slot(id, 1) \notin DOMAIN metadata => ~all_content[id].content_changed

\* C5 witness: a first parse, with no sidecar, drew a fresh assignment
C5_Witness ==
    \E id \in ParsedIds :
        /\ Slot(id, 1) \notin DOMAIN metadata
        /\ last.fresh[id]
        /\ ~all_content[id].content_changed

\* C5 second case: the sidecar is present with the text equal, and no fresh
\* assignment was generated
C5_WitnessKept ==
    \E id \in ParsedIds : RecordsCurrentText(id) /\ ~last.fresh[id]

----------------------------------------------------------------------------
(* Properties of the inventory differ *)

AllVariationsExist(id) ==
    \A v \in 1..variations_per_content : Slot(id, v) \in images

\* C10 (as claimed): an item that check_new_styles leaves out of
\* needs_generation, and check_images_inventory shows as CURRENT, has all N
\* expected variation images (the inventory being taken between two runs).
C10_CurrentHasAllImages ==
    \A id \in DOMAIN all_content :
        (/\ run = Idle
         /\ \/ id \notin DOMAIN check_new_styles(all_content, images, metadata,
                                              variations_per_content)
            \/ check_images_inventory(all_content, images, metadata,
                                      variations_per_content)[id] = "CURRENT")
            => AllVariationsExist(id)

----------------------------------------------------------------------------
(* Properties of select_style (checked under SpecSelect) *)

Selected == last.op = "select_style"

\* the style set a call must draw from
RelevantStyles(style_category) ==
    IF style_category = "random"
        THEN StyleKeys(styles_data, PaintingKey) \cup StyleKeys(styles_data, StorytellingKey)
    ELSE IF style_category \in KnownCategories
        THEN StyleKeys(styles_data, CategoryKey(style_category))
    ELSE StyleKeys(styles_data, PaintingKey)

InCategory(name, category) ==
    /\ category \in KnownCategories
    /\ name \in StyleKeys(styles_data, CategoryKey(category))

\* C6: with the relevant style sets non-empty, select_style returns a pair
\* whose name is a key of the collection of its category; a known
\* style_category is returned as the category; and for "random" every pair of
\* the union of both collections can be returned.
C6_SelectsFromCatalog ==
    /\ Selected /\ RelevantStyles(last.style_category) # {} =>
          /\ InCategory(last.result.name, last.result.category)
          /\ last.style_category \in KnownCategories =>
                last.result.category = last.style_category
    /\ \A category \in KnownCategories :
          \A n \in StyleKeys(styles_data, CategoryKey(category)) :
              \E o \in select_style(styles_data, "random", "random") :
                  o.name = n /\ o.category = category

\* C6 witness: "random" returned a storytelling style of a catalog that also
\* lists painting styles
C6_Witness ==
    /\ Selected
    /\ last.style_category = "random"
    /\ last.result.category = "visual_storytelling"
    /\ last.result.name = "noir"
    /\ StyleKeys(styles_data, PaintingKey) # {}

\* C7: for a known category, a style_specific that exists in it is returned
\* verbatim without a random draw; one that is not "random" and does not exist
\* in it is replaced by a style of that same category.
C7_SpecificStyle ==
    (Selected /\ last.style_category \in KnownCategories
        /\ last.style_specific # "random") =>
        LET keys == StyleKeys(styles_data, CategoryKey(last.style_category))
        IN  /\ last.result.category = last.style_category
            /\ last.style_specific \in keys =>
                  /\ last.result.name = last.style_specific
                  /\ ~last.result.random_draw
            /\ (last.style_specific \notin keys /\ keys # {}) =>
                  /\ last.result.name \in keys
                  /\ last.result.random_draw

\* C7 witness: a style that exists only in the other category was replaced
C7_Witness ==
    /\ Selected
    /\ last.style_category = "visual_storytelling"
    /\ last.style_specific = "turner-atmospheric"
    /\ "turner-atmospheric" \in StyleKeys(styles_data, PaintingKey)
    /\ last.result.name = "noir"

\* C7 second case: a style that exists in the category was used verbatim
C7_WitnessVerbatim ==
    /\ Selected
    /\ last.style_category = "visual_storytelling"
    /\ last.style_specific = "monet"
    /\ last.result.name = "monet"
    /\ ~last.result.random_draw

\* C8: select_style never raises; an unknown category yields a pair of the
\* default category painting_technique; and when the style set to draw from
\* is empty or its collection key is missing, the fixed fallback name is
\* returned.
C8_NeverRaises ==
    Selected =>
        /\ last.result.name # Raised
        /\ last.result.category \in KnownCategories
        /\ last.style_category \notin (KnownCategories \cup {"random"}) =>
              /\ last.result.category = DefaultCategory
              /\ StyleKeys(styles_data, PaintingKey) # {} =>
                    last.result.name \in StyleKeys(styles_data, PaintingKey)
        /\ (RelevantStyles(last.style_category) = {}
              /\ ~(/\ last.style_category \in KnownCategories
                   /\ last.style_specific \in StyleKeys(styles_data,
                                                CategoryKey(last.style_category)))) =>
              last.result.name = FallbackStyle

\* C8 witness: an unknown category against a catalog without the painting
\* collection returned the fallback name
C8_Witness ==
    /\ Selected
    /\ last.style_category = "watercolor_cats"
    /\ PaintingKey \notin DOMAIN styles_data
    /\ last.result.name = FallbackStyle
    /\ last.result.category = DefaultCategory

----------------------------------------------------------------------------
(* Properties of check_new_styles (checked under SpecDiffer) *)

Checked == last.op = "check_new_styles" /\ ~last.error

ImagesOf(id) == { v \in 1..variations_per_content : Slot(id, v) \in images }

Listed(id) == id \in DOMAIN last.needs_generation

ListedAs(id, type, reason) ==
    /\ Listed(id)
    /\ last.needs_generation[id].type = type
    /\ last.needs_generation[id].reason = reason

\* the v1 sidecar of id names another style than the item does
SidecarStyleDiffers(id) ==
    /\ Slot(id, 1) \in DOMAIN metadata
    /\ metadata[Slot(id, 1)].name # all_content[id].style_name

\* C9 (as claimed): no image -> new/no_images; images and content_changed ->
\* update/content_change; images, content unchanged and the v1 sidecar's
\* style name differing from the item's -> update/style_change with both
\* names; all N images, content unchanged, matching v1 style -> not listed.
C9_Classification ==
    Checked => \A id \in DOMAIN all_content :
        /\ ImagesOf(id) = {} => ListedAs(id, "new", "no_images")
        /\ (ImagesOf(id) # {} /\ all_content[id].content_changed) =>
              ListedAs(id, "update", "content_change")
        /\ (ImagesOf(id) # {} /\ ~all_content[id].content_changed
              /\ SidecarStyleDiffers(id)) =>
              /\ ListedAs(id, "update", "style_change")
              /\ last.needs_generation[id].existing_style = metadata[Slot(id, 1)].name
              /\ last.needs_generation[id].expected_style = all_content[id].style_name
        /\ (AllVariationsExist(id) /\ ~all_content[id].content_changed
              /\ ~SidecarStyleDiffers(id)) => ~Listed(id)

\* C9 (amended): as claimed, the style_change case being that of an item
\* whose v1 image exists and whose v1 sidecar names another style.
C9_ClassificationAmended ==
    Checked => \A id \in DOMAIN all_content :
        /\ ImagesOf(id) = {} => ListedAs(id, "new", "no_images")
        /\ (ImagesOf(id) # {} /\ all_content[id].content_changed) =>
              ListedAs(id, "update", "content_change")
        /\ (1 \in ImagesOf(id) /\ ~all_content[id].content_changed
              /\ SidecarStyleDiffers(id)) =>
              /\ ListedAs(id, "update", "style_change")
              /\ last.needs_generation[id].existing_style = metadata[Slot(id, 1)].name
              /\ last.needs_generation[id].expected_style = all_content[id].style_name
        /\ (AllVariationsExist(id) /\ ~all_content[id].content_changed
              /\ ~SidecarStyleDiffers(id)) => ~Listed(id)

\* C9 witness: of two items with all their images, one is listed for a
\* style change and the other, its sidecar matching, is not listed
C9_Witness ==
    /\ Checked
    /\ \A id \in DOMAIN all_content : AllVariationsExist(id)
    /\ ListedAs(1, "update", "style_change")
    /\ last.needs_generation[1].existing_style = "turner-atmospheric"
    /\ last.needs_generation[1].expected_style = "monet"
    /\ Slot(2, 1) \in DOMAIN metadata
    /\ ~Listed(2)

\* C9 first case: an item without images is listed as new
C9_WitnessNew ==
    /\ Checked
    /\ ImagesOf(1) = {}
    /\ ListedAs(1, "new", "no_images")
    /\ ListedAs(2, "update", "content_change")

----------------------------------------------------------------------------
(* Python floats: IEEE 754 binary64, round to nearest, ties to even.       *)
(* A natural number too wide for a machine word is the sequence of its     *)
(* base-10000 digits, least significant first; zero is the empty sequence. *)

Base == 10000

RECURSIVE MulCarry(_, _, _)
MulCarry(a, k, c) ==
    IF a = << >> THEN (IF c = 0 THEN << >> ELSE <<c % Base>> \o MulCarry(<< >>, k, c \div Base))
    ELSE LET t == a[1] * k + c
         IN  <<t % Base>> \o MulCarry(Tail(a), k, t \div Base)

\* a * k and a + 1, for a small natural k
MulSmall(a, k) == IF k = 0 THEN << >> ELSE MulCarry(a, k, 0)
Succ(a) == MulCarry(a, 1, 1)

\* 2^k, thirteen bits at a time
RECURSIVE Pow2(_)
Pow2(k) == IF k <= 13 THEN <<2^k>> ELSE MulSmall(Pow2(k - 13), 2^13)

\* <<quotient, remainder>> of a by a small positive q
RECURSIVE DivSmall(_, _)
DivSmall(a, q) ==
    IF a = << >> THEN << << >>, 0 >>
    ELSE LET hi == DivSmall(Tail(a), q)
             cur == hi[2] * Base + a[1]
             low == cur \div q
         IN  << IF low = 0 /\ hi[1] = << >> THEN << >> ELSE <<low>> \o hi[1],
                cur % q >>

\* a < b
RECURSIVE Less(_, _)
Less(a, b) ==
    IF Len(a) # Len(b) THEN Len(a) < Len(b)
    ELSE IF a = << >> THEN FALSE
    ELSE LET n == Len(a)
         IN  IF a[n] # b[n] THEN a[n] < b[n]
             ELSE Less(SubSeq(a, 1, n - 1), SubSeq(b, 1, n - 1))

\* a / q rounded to the nearest natural, ties to even
RoundDiv(a, q) ==
    LET d == DivSmall(a, q)
        even == d[1] = << >> \/ d[1][1] % 2 = 0
    IN  IF 2 * d[2] < q \/ (2 * d[2] = q /\ even) THEN d[1] ELSE Succ(d[1])

MantissaBits == 53
TwoTo52 == Pow2(MantissaBits - 1)
TwoTo53 == Pow2(MantissaBits)

\* the float man * 2^exp with 2^52 <= man < 2^53, after a rounding that may
\* have carried man to 2^53
Float(man, exp) ==
    IF man = TwoTo53 THEN [man |-> TwoTo52, exp |-> exp + 1]
    ELSE [man |-> man, exp |-> exp]
Zero == [man |-> << >>, exp |-> 0]

\* the float nearest to the number n * 2^exp, n >= 2^52: the s low bits of n
\* are rounded away
RECURSIVE RoundTo53(_, _, _)
RoundTo53(n, exp, s) ==
    IF Less(n, MulSmall(TwoTo53, 2^s)) THEN Float(RoundDiv(n, 2^s), exp + s)
    ELSE RoundTo53(n, exp, s + 1)

\* json.load of the decimal literal p/q, 2^-11 < p/q < 2^52: the nearest
\* float, p/q being scaled by the power of two that brings it to 53 bits
FloatOfRatio(p, q) ==
    LET scaled(k) == MulSmall(Pow2(k), p)
        reaches(k) == ~Less(scaled(k), MulSmall(TwoTo52, q))
        k == CHOOSE k \in 0..(MantissaBits + 10) :
                 reaches(k) /\ (k = 0 \/ ~reaches(k - 1))
    IN  Float(RoundDiv(scaled(k), q), 0 - k)
Thousandths(p) == IF p = 0 THEN Zero ELSE FloatOfRatio(p, 1000)

\* int * float: the exact product, rounded once
IntTimesFloat(k, x) ==
    IF k = 0 \/ x = Zero THEN Zero ELSE RoundTo53(MulSmall(x.man, k), x.exp, 0)

----------------------------------------------------------------------------
(* Configuration *)

\* cost_per_image, in thousandths, of load_config's defaults and of __init__
cost_per_image == 39

\* the float that the literal 0.039 denotes
DefaultCost == Thousandths(cost_per_image)

\* load_config: the configuration file, or the defaults when it is absent
load_config(config_file) ==
    IF DOMAIN config_file = {}
        THEN [image_generation |->
                 [variations_per_content |-> variations_per_content,
                  cost_per_image |-> DefaultCost]]
    ELSE config_file

\* ImageGenerator.__init__: the fields read from the configuration; the cost
\* is assigned again after the directories are set up
ImageGenerator(config_file) ==
    [variations_per_content |->
         load_config(config_file).image_generation.variations_per_content,
     cost_per_image |-> DefaultCost]

----------------------------------------------------------------------------
(* Orphaned artifacts *)

MaxFiles == 2      \* files in each of the image and sidecar directories
MaxFailures == 1   \* copies, and deletions, that fail in one cleanup
MaxCleanups == 2   \* cleanup calls in one behaviour
SidecarBytes == 300 \* the size of each sidecar file of the directories

DigitChars == <<"0", "1", "2", "3", "4", "5", "6", "7", "8", "9">>

\* str(n) of a natural number
RECURSIVE str(_)
str(n) == IF n < 10 THEN <<DigitChars[n + 1]>>
          ELSE str(n \div 10) \o <<DigitChars[(n % 10) + 1]>>

\* the stem of f"{base_filename}_v{variation}.png"; the sidecar of an image
\* is f"{base_filename}_v{variation}_metadata.json" and has the same stem
generate_image_filename(base_filename, variation) ==
    base_filename \o <<"_", "v">> \o str(variation)

get_base_filename_from_content(content) == Get(content, "content_file", <<>>)

\* the positions at which "_v" occurs in stem
Marks(stem) == { i \in 1..(Len(stem) - 1) : stem[i] = "_" /\ stem[i + 1] = "v" }

\* identify_orphaned_images taking the whole stem for the base name
base_name_whole_stem(stem) == stem

\* img_file.stem.rsplit('_v', 1)[0] if '_v' in img_file.stem else img_file.stem
base_name(stem) ==
    IF Marks(stem) = {} THEN stem
    ELSE LET i == CHOOSE i \in Marks(stem) : \A j \in Marks(stem) : j <= i
         IN  SubSeq(stem, 1, i - 1)

\* the total of stat().st_size over the files of directory dir named in names
RECURSIVE total_st_size(_, _, _)
total_st_size(sizes, dir, names) ==
    IF names = {} THEN 0
    ELSE LET f == CHOOSE f \in names : TRUE
         IN  sizes[<<dir, f>>] + total_st_size(sizes, dir, names \ {f})

\* n / d to one decimal, as the format specification .1f prints it
OneDecimal(n, d) ==
    LET q == (10 * n) \div d
        r == (10 * n) % d
    IN  IF 2 * r < d \/ (2 * r = d /\ q % 2 = 0) THEN q ELSE q + 1

\* size_str: the unit, and the number printed (in tenths for KB and MB)
format_size(total_size) ==
    IF total_size < 1024 THEN [unit |-> "bytes", number |-> total_size]
    ELSE IF total_size < 1024 * 1024
        THEN [unit |-> "KB", tenths |-> OneDecimal(total_size, 1024)]
    ELSE [unit |-> "MB", tenths |-> OneDecimal(total_size \div 1024, 1024)]

\* identify_orphaned_images(content_list) of a generator with
\* variations_per_content = n, on the directories imgs and meta
identify_orphaned_images(content_list, imgs, meta, sizes, n) ==
    LET bases == { get_base_filename_from_content(content_list[i]) :
                     i \in DOMAIN content_list }
        expected_files == { generate_image_filename(b, v) : b \in bases, v \in 1..n }
        orphaned == { f \in imgs : f \notin expected_files }
        excess_variations == { f \in orphaned : base_name(f) \in bases }
        missing_content == orphaned \ excess_variations
        orphaned_metadata == { f \in DOMAIN meta : f \notin expected_files }
    IN  [missing_content |-> missing_content,
         excess_variations |-> excess_variations,
         orphaned_metadata |-> orphaned_metadata,
         total_orphaned |-> Cardinality(missing_content) + Cardinality(excess_variations),
         total_metadata_orphaned |-> Cardinality(orphaned_metadata),
         estimated_space_saved |-> format_size(total_st_size(sizes, "images", orphaned)),
         variations_per_content |-> n]

\* cleanup_orphaned_images collecting no image beyond the configured variations
files_to_remove_keeping_excess(orphaned_result) ==
    { <<"images", f>> : f \in orphaned_result.missing_content }
    \cup { <<"metadata", f>> : f \in orphaned_result.orphaned_metadata }

\* the files cleanup_orphaned_images collects for removal
files_to_remove(orphaned_result) ==
    { <<"images", f>> : f \in orphaned_result.missing_content
                              \cup orphaned_result.excess_variations }
    \cup { <<"metadata", f>> : f \in orphaned_result.orphaned_metadata }

\* the removal loop stopping at the first file that cannot be deleted
unlink_none_after_failure(files, failing) ==
    [removed |-> IF failing = {} THEN files ELSE {}, errors |-> failing]

\* the removal loop deleting the image files only
unlink_images_only(files, failing) ==
    [removed |-> { f \in files \ failing : f[1] = "images" }, errors |-> failing]

\* the removal loop, when unlink raises for the files of failing: the files
\* deleted, and those an entry of errors names
unlink_each(files, failing) ==
    [removed |-> files \ failing, errors |-> failing]

\* the archive folders; a folder is named after the minute of the call
Folders == 1..MaxCleanups
LatestFolder == IF archive = {} THEN 1
                ELSE CHOOSE t \in Folders :
                       /\ \E e \in archive : e[1] = t
                       /\ \A e \in archive : e[1] <= t

NamesIn(dir, files) == { f[2] : f \in { g \in files : g[1] = dir } }

\* cleanup_orphaned_images(dry_run, archive_before_delete)
CleanupOrphaned(dry_run, archive_before_delete) ==
    /\ spent.runs < MaxCleanups
    /\ spent' = [spent EXCEPT !.runs = @ + 1]
    /\ LET n == ImageGenerator(config).variations_per_content
           orphaned_result == identify_orphaned_images(all_content, images, metadata,
                                                       st_size, n)
           to_remove == files_to_remove(orphaned_result)
           call == [op |-> "cleanup_orphaned_images", dry_run |-> dry_run,
                    archive_before_delete |-> archive_before_delete,
                    after_dry_run |-> last.op = "cleanup_orphaned_images"
                                      /\ last.status = "dry_run",
                    planned |-> IF last.op = "cleanup_orphaned_images"
                                   /\ last.status = "dry_run"
                                THEN last.files_to_remove ELSE {}]
       IN  IF DOMAIN all_content = {} THEN
               /\ last' = call @@ [status |-> "error"]
               /\ UNCHANGED <<images, metadata, st_size, archive>>
           ELSE IF orphaned_result.total_orphaned = 0
                   /\ orphaned_result.total_metadata_orphaned = 0 THEN
               /\ last' = call @@ [status |-> "no_action_needed",
                                   removed_images |-> {}, removed_metadata |-> {}]
               /\ UNCHANGED <<images, metadata, st_size, archive>>
           ELSE IF dry_run THEN
               /\ last' = call @@ [status |-> "dry_run",
                                   files_to_remove |-> to_remove,
                                   estimated_space_saved |->
                                       orphaned_result.estimated_space_saved]
               /\ UNCHANGED <<images, metadata, st_size, archive>>
           ELSE
               \E uncopied \in SUBSET to_remove, failing \in SUBSET to_remove,
                  folder \in Folders :
                 /\ Cardinality(uncopied) <= MaxFailures
                 /\ Cardinality(failing) <= MaxFailures
                 /\ folder \in {LatestFolder, LatestFolder + 1}
                 /\ archive_before_delete \/ (uncopied = {} /\ folder = LatestFolder)
                 /\ LET unlinked == unlink_each(to_remove, failing)
                        removed == unlinked.removed IN
                     /\ archive' = IF archive_before_delete
                                     THEN archive \cup {<<folder, "", <<>> >>}
                                          \cup { <<folder, f[1], f[2]>> :
                                                   f \in to_remove \ uncopied }
                                   ELSE archive
                     /\ images' = images \ NamesIn("images", removed)
                     /\ metadata' = [f \in DOMAIN metadata \ NamesIn("metadata", removed)
                                       |-> metadata[f]]
                     /\ st_size' = [f \in DOMAIN st_size \ removed |-> st_size[f]]
                     /\ last' = call @@
                          [status |-> IF unlinked.errors # {}
                                        THEN "completed_with_errors" ELSE "completed",
                           files_to_remove |-> to_remove,
                           removed_images |-> NamesIn("images", removed),
                           removed_metadata |-> NamesIn("metadata", removed),
                           errors |-> unlinked.errors,
                           folder |-> folder,
                           estimated_space_saved |->
                               orphaned_result.estimated_space_saved]
    /\ UNCHANGED <<config, interrupted, wrote, styles_data, body, all_content, run, returned>>

\* main --check-orphaned: identify_orphaned_images and its report
CheckOrphaned ==
    /\ last' = IF DOMAIN all_content = {}
                 THEN [op |-> "identify_orphaned_images", error |-> TRUE]
                 ELSE [op |-> "identify_orphaned_images", error |-> FALSE,
                       result |-> identify_orphaned_images(
                                      all_content, images, metadata, st_size,
                                      ImageGenerator(config).variations_per_content)]
    /\ UNCHANGED <<rest, styles_data, body, all_content, images,
                   metadata, wrote, run, spent, returned>>

\* the artifact directories handed to the cleanup: files of current content
\* (r_v2, and g_v1 when g is current), beyond the configured variations
\* (r_v5), of no content, and stems that carry no or several "_v"
ImageNames ==
    { <<"r", "_", "v", "2">>, <<"r", "_", "v", "5">>, <<"g", "_", "v", "1">>,
      <<"r">>, <<"r", "_", "v", "r">>, <<"r", "_", "v", "1", "_", "v", "5">> }
SidecarNames ==
    { <<"r", "_", "v", "2">>, <<"r", "_", "v", "5">>, <<"g", "_", "v", "1">> }
FileSizes == {1, 1500}

CleanupItem(base) ==
    [content_file |-> base, quote_text |-> 1, style_name |-> "monet",
     style_category |-> "painting_technique", content_changed |-> FALSE]
CleanupContents ==
    { << >>, <<CleanupItem(<<"r">>)>>, <<CleanupItem(<<"r">>), CleanupItem(<<"g">>)>> }

InitCleanup ==
    /\ styles_data = SiteCatalog
    /\ body = << >>
    /\ all_content \in CleanupContents
    /\ images \in { S \in SUBSET ImageNames : Cardinality(S) <= MaxFiles }
    /\ \E D \in { S \in SUBSET SidecarNames : Cardinality(S) <= MaxFiles } :
         /\ metadata = [f \in D |->
                [name |-> "monet", approach |-> "painting_technique", quote_text |-> 1,
                 success |-> (f \in images), error |-> (f \notin images)]]
         /\ \E image_sizes \in [ { <<"images", f>> : f \in images } -> FileSizes ] :
              st_size = image_sizes @@ [ f \in { <<"metadata", g>> : g \in D } |->
                                           SidecarBytes ]
    /\ run = Idle
    /\ last = [op |-> "init"]
    /\ spent = [edits |-> 0, runs |-> 0]
    /\ returned = << >>
    /\ config = << >>
    /\ archive = {}
    /\ interrupted = NotInterrupted
    /\ wrote = WrittenWith(images, metadata)

NextCleanup ==
    \/ \E dry_run \in BOOLEAN, archive_before_delete \in BOOLEAN :
         CleanupOrphaned(dry_run, archive_before_delete)
    \/ CheckOrphaned

SpecCleanup == InitCleanup /\ [][NextCleanup]_vars

----------------------------------------------------------------------------
(* Properties of the orphan report and of the cleanup *)

Identified == last.op = "identify_orphaned_images" /\ ~last.error

CurrentBases == { all_content[i].content_file : i \in DOMAIN all_content }

\* the variation indices a file name of the directories may carry
Indices == 0..9

\* f names variation k of the identity b
IsVariation(f, b, k) == f = b \o <<"_", "v">> \o str(k)

\* the <<identity, index>> that the name f is made of, if it is made of any
VariationsNamed(f) ==
    { p \in { SubSeq(f, 1, n) : n \in 0..Len(f) } \X Indices :
        IsVariation(f, p[1], p[2]) }

ExpectedImage(f) ==
    \E b \in CurrentBases, k \in 1..ImageGenerator(config).variations_per_content :
        IsVariation(f, b, k)

\* C11: identify_orphaned_images lists an image file exactly when its name is
\* not that of one of the N variations of a current content item, and then in
\* exactly one of missing_content and excess_variations: in missing_content
\* when it names a variation of an identity that is not current, in
\* excess_variations when it names a variation beyond N of a current one.
C11_OrphansPartitioned ==
    Identified =>
        /\ last.result.missing_content \cup last.result.excess_variations \subseteq images
        /\ \A f \in images :
            LET missing == f \in last.result.missing_content
                excess == f \in last.result.excess_variations
            IN  /\ ExpectedImage(f) => ~missing /\ ~excess
                /\ ~ExpectedImage(f) => (missing # excess)
                /\ \A p \in VariationsNamed(f) :
                     /\ p[1] \notin CurrentBases => missing
                     /\ (p[1] \in CurrentBases
                          /\ p[2] > ImageGenerator(config).variations_per_content)
                        => excess

\* ghost_v1.png of no content and real_v5.png beyond N = 3 are both reported
C11_Witness ==
    /\ Identified
    /\ CurrentBases = {<<"r">>}
    /\ last.result.missing_content = {<<"g", "_", "v", "1">>}
    /\ last.result.excess_variations = {<<"r", "_", "v", "5">>}

\* C12: every sidecar file whose image does not exist is reported in
\* orphaned_metadata.
C12_SidecarWithoutImageReported ==
    Identified =>
        \A f \in DOMAIN metadata : f \notin images => f \in last.result.orphaned_metadata

Cleaned == last.op = "cleanup_orphaned_images"
Deleting == Cleaned /\ last.status \in {"completed", "completed_with_errors"}

BytesOf(files) ==
    total_st_size(st_size, "images", NamesIn("images", files))
    + total_st_size(st_size, "metadata", NamesIn("metadata", files))

\* C13: a cleanup called with dry_run = true changes no file of the image,
\* sidecar and archive directories, and the space it reports is the space
\* that removing the files of its files_to_remove list reclaims.
C13_DryRunReportsAndKeeps ==
    [][ (last'.op = "cleanup_orphaned_images" /\ last'.dry_run) =>
          /\ UNCHANGED <<images, metadata, st_size, archive>>
          /\ last'.status = "dry_run" =>
               last'.estimated_space_saved = format_size(BytesOf(last'.files_to_remove))
      ]_vars

RemovedFiles ==
    { <<"images", f>> : f \in last.removed_images }
    \cup { <<"metadata", f>> : f \in last.removed_metadata }

\* C14: a cleanup that follows a dry run with nothing in between, and that
\* meets no deletion failure, removes exactly the files the dry run listed.
C14_RemovesWhatDryRunListed ==
    (Deleting /\ last.after_dry_run /\ last.status = "completed") =>
        RemovedFiles = last.planned

\* the dry run listed an image and a sidecar, and the cleanup removed them
C14_Witness ==
    /\ Deleting /\ last.after_dry_run /\ last.status = "completed"
    /\ last.removed_images # {}
    /\ last.removed_metadata # {}
    /\ RemovedFiles = last.planned

\* C15: in a cleanup that deletes, every file of the removal list is either
\* deleted (listed in removed_images or removed_metadata and gone from its
\* directory) or failed (named by an entry of errors and still in its
\* directory), never both, and the status is completed_with_errors exactly
\* when some deletion failed.
C15_FailuresDoNotStopTheBatch ==
    [][ (last'.op = "cleanup_orphaned_images"
         /\ last'.status \in {"completed", "completed_with_errors"}) =>
          LET listed == last'.files_to_remove
              removed == { <<"images", f>> : f \in last'.removed_images }
                         \cup { <<"metadata", f>> : f \in last'.removed_metadata }
          IN  /\ removed \cup last'.errors = listed
              /\ removed \cap last'.errors = {}
              /\ images' = images \ NamesIn("images", removed)
              /\ DOMAIN metadata' = DOMAIN metadata \ NamesIn("metadata", removed)
              /\ NamesIn("images", last'.errors) \subseteq images'
              /\ NamesIn("metadata", last'.errors) \subseteq DOMAIN metadata'
              /\ (last'.status = "completed_with_errors") = (last'.errors # {})
      ]_vars

\* one deletion failed and another file of the list was deleted all the same
C15_Witness ==
    /\ Deleting
    /\ last.status = "completed_with_errors"
    /\ last.errors # {}
    /\ RemovedFiles # {}

\* C16: in a cleanup that deletes with archive_before_delete = true, every
\* deleted file has a copy in the archive folder of the call.
C16_DeletedFilesAreArchived ==
    (Deleting /\ last.archive_before_delete) =>
        \A f \in RemovedFiles : <<last.folder, f[1], f[2]>> \in archive

\* a cleanup that deletes, or finds nothing to delete, and reports no error
CleanedWithoutErrors(call) ==
    /\ call.op = "cleanup_orphaned_images"
    /\ ~call.dry_run
    /\ call.status \in {"completed", "no_action_needed"}

\* C29: after a cleanup that is no dry run and reports no errors, the image
\* and sidecar directories hold exactly the files they held before that are
\* named as one of the N variations of a current content identity, each with
\* the content it had; no cleanup deletes such a file; and a cleanup that
\* follows at once returns no_action_needed.
C29_CleanupLeavesExpectedFiles ==
    [][ /\ last'.op = "cleanup_orphaned_images" =>
              /\ \A f \in images : ExpectedImage(f) => f \in images'
              /\ \A f \in DOMAIN metadata : ExpectedImage(f) =>
                    f \in DOMAIN metadata' /\ metadata'[f] = metadata[f]
        /\ CleanedWithoutErrors(last') =>
              /\ images' = { f \in images : ExpectedImage(f) }
              /\ DOMAIN metadata' = { f \in DOMAIN metadata : ExpectedImage(f) }
        /\ (CleanedWithoutErrors(last) /\ last'.op = "cleanup_orphaned_images") =>
              last'.status = "no_action_needed" ]_vars

\* C29 witness: the cleanup deleted real_v5.png and a sidecar and left
\* real_v2.png with its sidecar; the cleanup that followed found nothing
C29_Witness ==
    /\ Cleaned
    /\ last.status = "no_action_needed"
    /\ spent.runs = 2
    /\ images = {<<"r", "_", "v", "2">>}
    /\ DOMAIN metadata = {<<"r", "_", "v", "2">>}
    /\ \E e \in archive : e[2] = "images" /\ e[3] = <<"r", "_", "v", "5">>
    /\ \E e \in archive : e[2] = "metadata"

----------------------------------------------------------------------------
(* The cost projection *)

\* preview_analysis counting one image for each piece
preview_analysis_one_image_each(content_list, imgs, meta, generator) ==
    LET check_result == check_new_styles(content_list, imgs, meta,
                                         generator.variations_per_content)
        total_pieces == Cardinality(DOMAIN check_result)
    IN  [new_pieces |-> Cardinality({ id \in DOMAIN check_result :
                                        check_result[id].type = "new" }),
         update_pieces |-> Cardinality({ id \in DOMAIN check_result :
                                           check_result[id].type = "update" }),
         total_pieces |-> total_pieces,
         total_images |-> total_pieces,
         total_cost |-> IntTimesFloat(total_pieces, generator.cost_per_image),
         cost_per_image |-> generator.cost_per_image,
         variations_per_content |-> generator.variations_per_content,
         needs_generation |-> total_pieces > 0]

\* preview_analysis of a generator on the content list and the directories
preview_analysis(content_list, imgs, meta, generator) ==
    LET check_result == check_new_styles(content_list, imgs, meta,
                                         generator.variations_per_content)
        new_images == { id \in DOMAIN check_result : check_result[id].type = "new" }
        updates == { id \in DOMAIN check_result : check_result[id].type = "update" }
        new_pieces == Cardinality(new_images)
        update_pieces == Cardinality(updates)
        total_pieces == new_pieces + update_pieces
        total_images == total_pieces * generator.variations_per_content
    IN  [new_pieces |-> new_pieces,
         update_pieces |-> update_pieces,
         total_pieces |-> total_pieces,
         total_images |-> total_images,
         total_cost |-> IntTimesFloat(total_images, generator.cost_per_image),
         cost_per_image |-> generator.cost_per_image,
         variations_per_content |-> generator.variations_per_content,
         needs_generation |-> total_pieces > 0]

\* main --preview-analysis: a generator is constructed and prints its analysis
PreviewAnalysis ==
    /\ last' = IF DOMAIN all_content = {}
                 THEN [op |-> "preview_analysis", error |-> TRUE]
                 ELSE [op |-> "preview_analysis", error |-> FALSE,
                       analysis |-> preview_analysis(all_content, images, metadata,
                                                     ImageGenerator(config))]
    /\ UNCHANGED <<rest, styles_data, body, all_content, images,
                   metadata, wrote, run, spent, returned>>

\* config.json: absent, or giving a variation count and a cost per image
ConfiguredVariations == {2, 3}
ConfiguredCosts == {39, 50}
Configs ==
    { << >> } \cup
    { [image_generation |-> [variations_per_content |-> n,
                             cost_per_image |-> Thousandths(c)]] :
        n \in ConfiguredVariations, c \in ConfiguredCosts }

InitPreview ==
    /\ styles_data = SiteCatalog
    /\ body = [id \in 1..DifferItems |-> 1]
    /\ \E c \in DifferContents :
         all_content = [id \in 1..DifferItems |-> [c[id] EXCEPT !.content_file = id]]
    /\ images \in SUBSET ((1..DifferItems) \X (1..variations_per_content))
    /\ metadata \in DifferSidecars(images)
    /\ run = Idle
    /\ last = [op |-> "init"]
    /\ spent = [edits |-> 0, runs |-> 0]
    /\ returned = [id \in 1..DifferItems |-> << >>]
    /\ config \in Configs
    /\ st_size = << >>
    /\ archive = {}
    /\ interrupted = NotInterrupted
    /\ wrote = WrittenWith(images, metadata)

NextPreview == PreviewAnalysis

SpecPreview == InitPreview /\ [][NextPreview]_vars

----------------------------------------------------------------------------
(* Properties of the cost projection and of the configuration *)

Previewed == last.op = "preview_analysis" /\ ~last.error

\* the items check_new_styles lists with the variation count in force
PiecesToGenerate ==
    DOMAIN check_new_styles(all_content, images, metadata,
                            last.analysis.variations_per_content)

\* the floats x and y are equal or adjacent
WithinOneUlp(x, y) ==
    \/ x = y
    \/ /\ x # Zero /\ y # Zero
       /\ x.exp = y.exp
       /\ (Succ(x.man) = y.man \/ Succ(y.man) = x.man)

\* C17: preview_analysis reports total_images = (new + update) * N and
\* total_cost = total_images * the cost per image, the decimal product
\* (3 images at 0.039 cost 0.117), and needs_generation is true exactly when
\* the count is positive.
C17_CostProjection ==
    (Previewed /\ last.analysis.cost_per_image = DefaultCost) =>
        /\ last.analysis.total_images =
             (last.analysis.new_pieces + last.analysis.update_pieces)
             * last.analysis.variations_per_content
        /\ last.analysis.new_pieces + last.analysis.update_pieces
             = Cardinality(PiecesToGenerate)
        /\ last.analysis.total_cost
             = Thousandths(last.analysis.total_images * cost_per_image)
        /\ last.analysis.needs_generation = (Cardinality(PiecesToGenerate) > 0)

\* C17 amended: as C17, with total_cost the floating-point product, which is
\* the float nearest to the decimal product or a float adjacent to it.
C17_CostProjectionAmended ==
    (Previewed /\ last.analysis.cost_per_image = DefaultCost) =>
        /\ last.analysis.total_images =
             (last.analysis.new_pieces + last.analysis.update_pieces)
             * last.analysis.variations_per_content
        /\ last.analysis.new_pieces + last.analysis.update_pieces
             = Cardinality(PiecesToGenerate)
        /\ WithinOneUlp(last.analysis.total_cost,
                        Thousandths(last.analysis.total_images * cost_per_image))
        /\ last.analysis.needs_generation = (Cardinality(PiecesToGenerate) > 0)

\* one new item with N = 3: three images, at a cost adjacent to 0.117
C17_Witness ==
    /\ Previewed
    /\ DOMAIN config = {}
    /\ last.analysis.cost_per_image = DefaultCost
    /\ last.analysis.new_pieces = 1
    /\ last.analysis.update_pieces = 0
    /\ last.analysis.variations_per_content = 3
    /\ last.analysis.total_images = 3
    /\ last.analysis.total_cost # Thousandths(117)
    /\ WithinOneUlp(last.analysis.total_cost, Thousandths(117))

\* C18: with a configuration file, the variation count and the cost per image
\* in use are the file's; without one they are the defaults 3 and 0.039.
C18_ConfigurationInForce ==
    Previewed =>
        IF DOMAIN config # {}
            THEN /\ last.analysis.variations_per_content
                      = config.image_generation.variations_per_content
                 /\ last.analysis.cost_per_image = config.image_generation.cost_per_image
            ELSE /\ last.analysis.variations_per_content = variations_per_content
                 /\ last.analysis.cost_per_image = DefaultCost

----------------------------------------------------------------------------
(* One generation run over several content items *)

BatchItems == 2

\* the content lists the parser writes for BatchItems content files when no
\* sidecar exists yet
BatchContents ==
    { Written(parsed) : parsed \in
        { [id \in 1..BatchItems |->
              ContentItem(id, 1, a[id]) @@ [fresh |-> TRUE, frontmatter |-> fm[id]]] :
            <<fm, a>> \in
              { x \in [1..BatchItems -> Frontmatters] \X
                      [1..BatchItems ->
                          UNION { get_stable_style_for_content(
                                      SiteCatalog, << >>, i, 1,
                                      f.style_category, f.style_specific) :
                                    i \in 1..BatchItems, f \in Frontmatters }] :
                  \A i \in 1..BatchItems :
                      x[2][i] \in get_stable_style_for_content(
                                      SiteCatalog, << >>, i, 1,
                                      x[1][i].style_category, x[1][i].style_specific) } } }

\* the content files are parsed, nothing is generated yet, and one run is made
InitBatch ==
    /\ styles_data = SiteCatalog
    /\ body = [id \in 1..BatchItems |-> 1]
    /\ all_content \in BatchContents
    /\ images = {}
    /\ metadata = << >>
    /\ run = Idle
    /\ last = [op |-> "init"]
    /\ spent = [edits |-> MaxEdits, runs |-> MaxRuns - 1]
    /\ returned = [id \in 1..BatchItems |-> << >>]
    /\ config = << >>
    /\ st_size = << >>
    /\ archive = {}
    /\ interrupted = NotInterrupted
    /\ wrote = << >>

NextBatch ==
    \/ \E force \in BOOLEAN, variations \in VariationCounts : GenerateStart(force, variations)
    \/ GenerateStep
    \/ Terminate

SpecBatch == InitBatch /\ [][NextBatch]_vars

\* the call that follows the call for (item, variation) in a run over content
\* with variations images for each item; Idle after the last one
FollowingCall(r) ==
    IF r.variation < r.variations THEN [r EXCEPT !.variation = @ + 1]
    ELSE IF \E j \in DOMAIN r.content : j > r.item
        THEN [r EXCEPT !.item = r.item + 1, !.variation = 1]
    ELSE Idle

\* C19: when the API call for an item and variation raises, the sidecar of that
\* variation is written as a failure record that carries the error, and the
\* run goes on with the next variation, or with the next item after the last
\* variation; it only ends after the last variation of the last item.
C19_FailureRecordedRunContinues ==
    [][ (last'.op = "generate_image" /\ last'.status = "error") =>
          LET slot == Slot(last'.id, last'.variation)
          IN  /\ run # Idle
              /\ last'.id = run.item /\ last'.variation = run.variation
              /\ slot \in DOMAIN metadata'
              /\ metadata'[slot].error
              /\ ~metadata'[slot].success
              /\ images' = images
              /\ run' = FollowingCall(run)
      ]_vars

\* every call for the first item failed and the second item got its image
C19_Witness ==
    /\ \A v \in 1..variations_per_content :
          /\ Slot(1, v) \in DOMAIN metadata
          /\ metadata[Slot(1, v)].error
          /\ Slot(1, v) \notin images
    /\ \A v \in 1..variations_per_content : Slot(2, v) \in images
    /\ run = Idle

----------------------------------------------------------------------------
(* Re-running generation after a run that was killed *)

\* the statuses of a call while the image API succeeds
StatusesOfSuccess == {"skipped", "success"}

AllSlots(content) == (DOMAIN content) \X (1..variations_per_content)

\* the sidecars a killed run may have written for the slots of D: the record
\* of the success where the image exists, that of a failed call elsewhere
RECURSIVE LeftRecords(_, _, _)
LeftRecords(content, imgs, D) ==
    IF D = {} THEN { << >> }
    ELSE LET slot == CHOOSE s \in D : TRUE
         IN  { WriteFile(m, slot,
                         Sidecar(style @@ content[slot[1]],
                                 IF slot \in imgs THEN "success" ELSE "error")) :
                 m \in LeftRecords(content, imgs, D \ {slot}),
                 style \in VariationStyles(SiteCatalog, content[slot[1]], slot[2]) }

\* the sidecar directories a killed run may leave next to the images imgs:
\* every image has its sidecar, a missing image has none or that of a failure
LeftSidecars(content, imgs) ==
    UNION { LeftRecords(content, imgs, D) :
              D \in { E \in SUBSET AllSlots(content) : imgs \subseteq E } }

\* a run over BatchItems items was killed with some of the images missing
InitHeal ==
    /\ styles_data = SiteCatalog
    /\ body = [id \in 1..BatchItems |-> 1]
    /\ all_content \in BatchContents
    /\ images \in SUBSET AllSlots(all_content)
    /\ images # AllSlots(all_content)
    /\ metadata \in LeftSidecars(all_content, images)
    /\ run = Idle
    /\ last = [op |-> "terminate"]
    /\ spent = [edits |-> MaxEdits, runs |-> MaxRuns - 1]
    /\ returned = [id \in 1..BatchItems |-> << >>]
    /\ config = << >>
    /\ st_size = << >>
    /\ archive = {}
    /\ interrupted = [images |-> images, metadata |-> metadata]
    /\ wrote = WrittenWith(images, metadata)

\* generation is run again in the default mode, and the API succeeds
Regenerate == GenerateStart(FALSE, variations_per_content)
RegenerateCall == GenerateCall(StatusesOfSuccess)

NextHeal ==
    \/ Regenerate
    \/ RegenerateCall

\* the run is made, and a run that is not killed makes its calls
SpecHeal ==
    InitHeal /\ [][NextHeal]_vars /\ WF_vars(Regenerate) /\ WF_vars(RegenerateCall)

Complete == AllSlots(all_content) \subseteq images

\* the images that were present are still there with the sidecars they had,
\* and a call for one of them is skipped
Preserved ==
    /\ interrupted.images \subseteq images
    /\ \A slot \in interrupted.images :
          slot \in DOMAIN interrupted.metadata =>
              /\ slot \in DOMAIN metadata
              /\ metadata[slot] = interrupted.metadata[slot]
    /\ (last.op = "generate_image"
        /\ Slot(last.id, last.variation) \in interrupted.images)
          => last.status = "skipped"

\* C20: after a run that was killed with some images missing, a run in the
\* default mode with a succeeding API ends with all N images of every item
\* present, and it neither requests again nor changes the images that were
\* present, nor their sidecars.
C20_RerunCompletes == <>[]Complete /\ []Preserved

\* the run is over: the missing images were generated next to the kept ones
C20_Witness ==
    /\ run = Idle
    /\ last.op = "generate_image"
    /\ Complete
    /\ interrupted.images # {}
    /\ \E slot \in AllSlots(all_content) \ interrupted.images :
          slot \in DOMAIN interrupted.metadata /\ metadata[slot].success
    /\ Preserved

----------------------------------------------------------------------------
(* The content loader: parse_markdown and parse_all_content.  Here a       *)
(* content file is the sequence of its lines, and body maps the name of    *)
(* each file of the content directory to that sequence.                    *)

\* the lines a content file is made of
Delimiter == [kind |-> "---"]
Pair(key, value) == [kind |-> "pair", key |-> key, value |-> value]
Scalar(words) == [kind |-> "scalar", words |-> words]
TextLine(t) == [kind |-> "text", text |-> t]

required_fields == <<"title", "author", "type">>
StyleFields == {"style_category", "style_specific"}
FrontmatterKeys == {"title", "author", "type"} \cup StyleFields

\* '' : the main section of a file without body
NoText == 0

\* content.split('---', 2) of a content that starts with the delimiter: the
\* index of the line that closes the block, 0 when there is none
ClosingLine(content) ==
    IF \E i \in 2..Len(content) : content[i] = Delimiter
        THEN CHOOSE i \in 2..Len(content) :
               /\ content[i] = Delimiter
               /\ \A j \in 2..(i - 1) : content[j] # Delimiter
        ELSE 0

\* yaml.safe_load(parts[1]): None for an empty block, a dict for a block of
\* key: value lines (the last line of a key wins), a str for a block of plain
\* words, and a YAMLError otherwise
yaml_safe_load(block) ==
    IF block = << >> THEN [kind |-> "None"]
    ELSE IF \A i \in DOMAIN block : block[i].kind = "pair" THEN
        [kind |-> "dict",
         items |-> [k \in { block[i].key : i \in DOMAIN block } |->
                      block[CHOOSE i \in DOMAIN block :
                              /\ block[i].key = k
                              /\ \A j \in DOMAIN block : block[j].key = k => j <= i].value]]
    ELSE IF \A i \in DOMAIN block : block[i].kind = "scalar" THEN
        [kind |-> "str", words |-> UNION { block[i].words : i \in DOMAIN block }]
    ELSE [kind |-> "YAMLError"]

\* field in frontmatter: a key of a dict, a substring of a str
Contains(frontmatter, field) ==
    IF frontmatter.kind = "dict" THEN field \in DOMAIN frontmatter.items
    ELSE field \in frontmatter.words

Failed(error) == [error |-> error]

\* sections.get('main', ''): the text that follows the block
MainSection(rest_of_file) ==
    IF \E i \in DOMAIN rest_of_file : rest_of_file[i].kind = "text"
        THEN rest_of_file[CHOOSE i \in DOMAIN rest_of_file :
                            /\ rest_of_file[i].kind = "text"
                            /\ \A j \in DOMAIN rest_of_file :
                                  rest_of_file[j].kind = "text" => i <= j].text
        ELSE NoText

\* parse_markdown(file_path) for a file that holds content: the dict it
\* returns, or the exception it raises
parse_markdown(content) ==
    IF ~(Len(content) > 0 /\ content[1] = Delimiter) THEN Failed("ValueError")
    ELSE IF ClosingLine(content) = 0 THEN Failed("ValueError")
    ELSE
        LET closing == ClosingLine(content)
            frontmatter == yaml_safe_load(SubSeq(content, 2, closing - 1))
            markdown_content == SubSeq(content, closing + 1, Len(content))
        IN  IF frontmatter.kind = "YAMLError" THEN Failed("YAMLError")
            \* 'title' not in None
            ELSE IF frontmatter.kind = "None" THEN Failed("TypeError")
            ELSE IF \E i \in DOMAIN required_fields :
                        ~Contains(frontmatter, required_fields[i])
                THEN Failed("ValueError")
            \* frontmatter['style_category'] = 'random' on a str
            ELSE IF frontmatter.kind = "str"
                    /\ \E field \in StyleFields : ~Contains(frontmatter, field)
                THEN Failed("TypeError")
            ELSE [error |-> "",
                  frontmatter |->
                      IF frontmatter.kind = "str" THEN frontmatter
                      ELSE [kind |-> "dict",
                            items |-> frontmatter.items @@
                                      [field \in StyleFields |-> "random"]],
                  content |-> MainSection(markdown_content)]

\* generate_prompt(parsed_content) for the file file_path: the items it may
\* return, or the exception of frontmatter.get on what is not a dict
generate_prompt(styles, meta, file_path, parsed_content) ==
    IF parsed_content.frontmatter.kind # "dict" THEN { Failed("AttributeError") }
    ELSE LET frontmatter == parsed_content.frontmatter.items
             style_category == Get(frontmatter, "style_category", "random")
             style_specific == Get(frontmatter, "style_specific", "random")
         IN  { ContentItem(file_path, parsed_content.content, a) @@ [error |-> ""] :
                 a \in get_stable_style_for_content(styles, meta, file_path,
                                                    parsed_content.content,
                                                    style_category, style_specific) }

\* file_path.name.lower(), word by word
lower(word) == IF word = "Template" THEN "template" ELSE word

\* 'template' in file_path.name.lower()
IsTemplate(name) == \E i \in DOMAIN name : lower(name[i]) = "template"

\* what the try block of parse_all_content yields for one file
ParsedFile(styles, meta, dir, name) ==
    LET parsed == parse_markdown(dir[name])
    IN  IF parsed.error # "" THEN { parsed }
        ELSE generate_prompt(styles, meta, name, parsed)

\* parse_all_content: the results it may return, keyed by file name
parse_all_content(styles, meta, dir) ==
    LET files == { name \in DOMAIN dir : ~IsTemplate(name) }
        outcomes == [files -> UNION { ParsedFile(styles, meta, dir, name) : name \in files }]
    IN  { [name \in { f \in files : o[f].error = "" } |-> o[name]] :
            o \in { p \in outcomes :
                      \A name \in files : p[name] \in ParsedFile(styles, meta, dir, name) } }

\* one call of parse_markdown
ParseMarkdown ==
    /\ \E name \in DOMAIN body :
         last' = [op |-> "parse_markdown", file |-> name,
                  result |-> parse_markdown(body[name])]
    /\ UNCHANGED <<rest, styles_data, body, all_content, images, metadata, wrote,
                   run, spent, returned>>

\* one call of parse_all_content
ParseAllContent ==
    /\ \E results \in parse_all_content(styles_data, metadata, body) :
         last' = [op |-> "parse_all_content", results |-> results]
    /\ UNCHANGED <<rest, styles_data, body, all_content, images, metadata, wrote,
                   run, spent, returned>>

\* the metadata blocks of the content files: key: value lines for any set of
\* the known keys, and plain words
Blocks ==
    { [i \in 1..Len(keys) |->
          Pair(keys[i], IF keys[i] = "style_category" THEN "visual_storytelling"
                        ELSE IF keys[i] = "style_specific" THEN "noir"
                        ELSE "given")] :
        keys \in { k \in UNION { [1..n -> FrontmatterKeys] : n \in 0..5 } :
                     \A i, j \in DOMAIN k : i < j =>
                         \* the keys in the order of the template
                         \/ k[i] = "title" /\ k[j] # "title"
                         \/ k[i] = "author" /\ k[j] \notin {"title", "author"}
                         \/ k[i] = "type" /\ k[j] \in StyleFields
                         \/ k[i] = "style_category" /\ k[j] = "style_specific" } }
    \cup { <<Scalar({"title", "author", "type"})>>, <<Scalar(FrontmatterKeys)>> }

\* a content file: the block with or without its delimiters, then the text
FileContents ==
    { (IF leading THEN <<Delimiter>> ELSE << >>) \o block
        \o (IF closed THEN <<Delimiter>> ELSE << >>) \o <<TextLine(1)>> :
        leading \in BOOLEAN, closed \in BOOLEAN, block \in Blocks }

\* a file as the template gives it, without style fields
PlainFile ==
    <<Delimiter, Pair("title", "given"), Pair("author", "given"),
      Pair("type", "given"), Delimiter, TextLine(1)>>

\* the content directory: one file of any content, a second file that is
\* well-formed or has no block, and the template
InitLoader ==
    /\ styles_data = SiteCatalog
    /\ \E first \in FileContents, second \in {PlainFile, <<TextLine(1)>>} :
         body = [name \in {<<"quote">>, <<"poem">>, <<"quote", "Template">>} |->
                   IF name = <<"quote">> THEN first
                   ELSE IF name = <<"poem">> THEN second
                   ELSE PlainFile]
    /\ all_content = << >>
    /\ images = {}
    /\ metadata = << >>
    /\ run = Idle
    /\ last = [op |-> "init"]
    /\ spent = [edits |-> 0, runs |-> 0]
    /\ returned = << >>
    /\ config = << >>
    /\ st_size = << >>
    /\ archive = {}
    /\ interrupted = NotInterrupted
    /\ wrote = << >>

NextLoader ==
    \/ ParseMarkdown
    \/ ParseAllContent

SpecLoader == InitLoader /\ [][NextLoader]_vars

\* the lines of the metadata block of a file, << >> when it has none
BlockOf(content) ==
    IF Len(content) > 0 /\ content[1] = Delimiter /\ ClosingLine(content) # 0
        THEN SubSeq(content, 2, ClosingLine(content) - 1)
        ELSE << >>

\* the file has no leading metadata block closed by a delimiter
LacksBlock(content) ==
    ~(Len(content) > 0 /\ content[1] = Delimiter /\ ClosingLine(content) # 0)

\* the keys the metadata block of the file gives a value
KeysOf(content) ==
    { BlockOf(content)[i].key :
        i \in { j \in DOMAIN BlockOf(content) : BlockOf(content)[j].kind = "pair" } }

LacksRequiredKey(content) ==
    \E i \in DOMAIN required_fields : required_fields[i] \notin KeysOf(content)

\* the block is a mapping that gives all the required keys
WellFormed(content) ==
    /\ ~LacksBlock(content)
    /\ ~LacksRequiredKey(content)
    /\ \A i \in DOMAIN BlockOf(content) : BlockOf(content)[i].kind = "pair"

\* C21 (as claimed): parse_markdown fails for a file that lacks the leading
\* metadata block or one of the keys title, author, type, and gives the
\* style fields a file leaves out the value "random"; parse_all_content
\* leaves a failing file out of its result and includes every other file
\* that is not a template.
C21_LoaderContract ==
    /\ last.op = "parse_markdown" =>
          LET content == body[last.file] IN
          /\ (LacksBlock(content) \/ LacksRequiredKey(content)) => last.result.error # ""
          /\ WellFormed(content) =>
                /\ last.result.error = ""
                /\ \A field \in StyleFields :
                      field \notin KeysOf(content) =>
                          last.result.frontmatter.items[field] = "random"
    /\ last.op = "parse_all_content" =>
          \A name \in DOMAIN body :
              /\ (LacksBlock(body[name]) \/ LacksRequiredKey(body[name])) =>
                    name \notin DOMAIN last.results
              /\ (WellFormed(body[name]) /\ ~IsTemplate(name)) =>
                    name \in DOMAIN last.results
              /\ IsTemplate(name) => name \notin DOMAIN last.results

----------------------------------------------------------------------------
(* The pipeline with the catalog file or all_content.json missing *)

\* the content lists the parser writes for the content files of the pipeline
\* when no sidecar exists yet
FirstContents == { [id \in Ids |-> c[id]] : c \in BatchContents }

\* the content files exist and no artifact does; all_content.json, or the
\* catalog file next to a content list parsed earlier, is missing
InitAbsent ==
    /\ styles_data \in {SiteCatalog, NoStylesFile}
    /\ body = [id \in Ids |-> 1]
    /\ all_content \in { << >> } \cup FirstContents
    /\ all_content = << >> \/ styles_data = NoStylesFile
    /\ images = {}
    /\ metadata = << >>
    /\ run = Idle
    /\ last = [op |-> "init"]
    /\ spent = [edits |-> MaxEdits, runs |-> MaxRuns - 1]
    /\ returned = [id \in Ids |-> << >>]
    /\ config = << >>
    /\ st_size = << >>
    /\ archive = {}
    /\ interrupted = NotInterrupted
    /\ wrote = << >>

NextAbsent ==
    \/ ParseAll
    \/ \E force \in BOOLEAN, variations \in VariationCounts : GenerateStart(force, variations)
    \/ GenerateStep
    \/ Terminate
    \/ CheckNewStyles
    \/ PreviewAnalysis

SpecAbsent == InitAbsent /\ [][NextAbsent]_vars

\* the step leaves the artifacts on disk alone
ArtifactsUnchanged ==
    /\ images' = images
    /\ metadata' = metadata
    /\ archive' = archive

\* C22 (as claimed): while all_content.json is missing, an operation that
\* reads it (check_new_styles, preview, generate_from_parsed_content) reports
\* an error and no step calls generate_image for an item, sends a request to
\* the image API or changes an artifact; while the catalog file is missing,
\* no item is parsed, no request is sent and no artifact changes.
C22_MissingDependencyAborts ==
    [][ /\ DOMAIN all_content = {} =>
              /\ last'.op \in {"check_new_styles", "preview_analysis"} => last'.error
              /\ last'.op # "generate_image"
              /\ ArtifactsUnchanged
        /\ styles_data = NoStylesFile =>
              /\ last'.op # "parse"
              /\ DOMAIN all_content = {} => last'.op # "generate_start"
              /\ last'.op = "generate_image" => ~last'.api
              /\ ArtifactsUnchanged
      ]_vars

----------------------------------------------------------------------------
(* Properties of the generation run *)

\* C23 (as claimed): when a call sends a request to the image API, every
\* request sent earlier in the run has been followed by a rate-limit delay,
\* whatever the earlier request returned.
C23_DelayBetweenRequests ==
    (last.op = "generate_image" /\ last.api) => ~last.undelayed_before

OppositeCategory(style_category) ==
    IF style_category = "painting_technique" THEN "visual_storytelling"
    ELSE "painting_technique"

\* C24 (as claimed): for an item the parser produced, variation 1 is given the
\* item's style, variation 2 a style of the category of the item's style,
\* another one whenever that category holds another, and every variation from
\* 3 on a style of the opposite category.
C24_VariationStyles ==
    [][ (last'.op = "generate_image" /\ run # Idle /\ run.variations > 1) =>
          LET item == run.content[run.item]
              same == StyleKeys(styles_data, CategoryKey(item.style_category))
              opposite == StyleKeys(styles_data,
                                    CategoryKey(OppositeCategory(item.style_category)))
          IN  /\ run.variation = 1 => last'.style_name = item.style_name
              /\ run.variation = 2 =>
                    /\ last'.style_name \in same
                    /\ same \ {item.style_name} # {} =>
                          last'.style_name # item.style_name
              /\ run.variation >= 3 => last'.style_name \in opposite
      ]_vars

\* C26: a call with force false for a variation whose image exists returns
\* skipped, sends no request to the image API and leaves every image and
\* sidecar as it is.
C26_ExistingImageSkipped ==
    [][ (last'.op = "generate_image" /\ run # Idle /\ ~run.force
            /\ Slot(run.item, run.variation) \in images) =>
          /\ last'.status = "skipped"
          /\ ~last'.api
          /\ images' = images
          /\ metadata' = metadata
      ]_vars

\* C26 witness: the text was edited and parsed after a first run had written
\* every image, and a second run, in the default mode, ended with its last
\* call skipped; no sidecar carries the new text, so it sent no request
C26_Witness ==
    /\ run = Idle
    /\ spent.runs = MaxRuns
    /\ last.op = "generate_image"
    /\ last.status = "skipped"
    /\ ~last.force
    /\ last.variation = variations_per_content
    /\ DOMAIN all_content = ContentIds
    /\ \A id \in ContentIds :
          /\ AllVariationsExist(id)
          /\ all_content[id].quote_text = body[id]
          /\ \A v \in 1..variations_per_content :
                /\ Slot(id, v) \in DOMAIN metadata
                /\ metadata[Slot(id, v)].success
                /\ metadata[Slot(id, v)].quote_text # body[id]

\* the v1 sidecar of id records what the call that wrote the v1 image recorded
RecordsItsImage(id) ==
    (Slot(id, 1) \in images /\ Slot(id, 1) \in DOMAIN metadata
        /\ Slot(id, 1) \in DOMAIN wrote) =>
        /\ metadata[Slot(id, 1)].name = wrote[Slot(id, 1)].name
        /\ metadata[Slot(id, 1)].quote_text = wrote[Slot(id, 1)].quote_text

\* C27 (as claimed): whenever the v1 image of an item and its sidecar exist,
\* the sidecar records the style name and the body text of the call that
\* wrote the image; and a call that raises or returns no image, forced or
\* not, leaves the sidecar of an image that exists as it is.
C27_SidecarMatchesImage ==
    /\ [](\A id \in ContentIds : RecordsItsImage(id))
    /\ [][ (last'.op = "generate_image" /\ run # Idle
              /\ last'.status \in {"error", "no_image", "raised"}
              /\ Slot(run.item, run.variation) \in images
              /\ Slot(run.item, run.variation) \in DOMAIN metadata) =>
             metadata'[Slot(run.item, run.variation)]
                 = metadata[Slot(run.item, run.variation)]
         ]_vars

\* C28 (as claimed): when the parser has reported content_changed for an item
\* that has images, and a run in the default mode has been made since, a new
\* parse of the same body text reports content_changed false and the style
\* of the previous parse.
C28_DefaultRunSettlesChange ==
    [][ (last'.op = "parse" /\ last.op = "generate_image" /\ run = Idle
            /\ ~last.force /\ last.status # "raised") =>
          \A id \in DOMAIN all_content :
              (/\ all_content[id].content_changed
               /\ all_content[id].quote_text = body[id]
               /\ \E v \in 1..variations_per_content : Slot(id, v) \in images
               /\ id \in DOMAIN all_content') =>
                  /\ ~all_content'[id].content_changed
                  /\ all_content'[id].style_name = all_content[id].style_name
                  /\ all_content'[id].style_category = all_content[id].style_category
      ]_vars

\* C30 (as claimed): every call that generate_from_parsed_content makes for
\* an item of the parser, with any variation count, returns one of the
\* statuses skipped, success, no_image and error: no exception escapes
\* generate_image and ends the loop over the items.
C30_EveryCallReturns ==
    last.op = "generate_image" =>
        last.status \in {"skipped", "success", "no_image", "error"}

----------------------------------------------------------------------------
(* The list check_new_styles returns (checked under SpecDiffer) *)

\* the entries of the returned list that name the item id
EntriesOf(id) == { i \in DOMAIN last.listing : last.listing[i].filename = id }

\* C25: check_new_styles lists each content item at most once; the reason is
\* no_images for an item without images, else content_change for an item
\* whose content_changed flag is true, else style_change; style_change is
\* reported only when the v1 image exists and has a sidecar, and never for an
\* item whose content_changed flag is true.
C25_ListedOnceByPriority ==
    Checked => \A id \in DOMAIN all_content :
        /\ Cardinality(EntriesOf(id)) <= 1
        /\ \A i \in EntriesOf(id) :
              LET reason == last.listing[i].reason IN
              /\ reason \in {"no_images", "content_change", "style_change"}
              /\ ImagesOf(id) = {} <=> reason = "no_images"
              /\ (ImagesOf(id) # {} /\ all_content[id].content_changed)
                    <=> reason = "content_change"
              /\ reason = "style_change" =>
                    /\ Slot(id, 1) \in images
                    /\ Slot(id, 1) \in DOMAIN metadata
                    /\ ~all_content[id].content_changed
        /\ (ImagesOf(id) = {} \/ all_content[id].content_changed) =>
              EntriesOf(id) # {}

\* C25 witness: an item with its v1 image, a changed content and a sidecar
\* that names another style is listed once, for the content change, and an
\* unchanged item is listed for the style change
C25_Witness ==
    /\ Checked
    /\ Slot(1, 1) \in images
    /\ all_content[1].content_changed
    /\ SidecarStyleDiffers(1)
    /\ Cardinality(EntriesOf(1)) = 1
    /\ \A i \in EntriesOf(1) : last.listing[i].reason = "content_change"
    /\ ~all_content[2].content_changed
    /\ \E i \in EntriesOf(2) : last.listing[i].reason = "style_change"

====
